---- MODULE Spec2Model ----
(***************************************************************************)
(* Desired Geometry Reconciliation Controller of desktop-widget-clock      *)
(* (src/src/main/services/window.ts), with the part of the application     *)
(* start-up (src/src/main/index.ts) that drives it: the single-instance    *)
(* lock, the ready callback and the 'activate' handler.  The two polling   *)
(* services (temperature, bluetooth-battery.ts) that send their readings   *)
(* to the surface are modelled beside it.                                  *)
(*                                                                         *)
(* The program is single threaded: every handler and every setTimeout      *)
(* callback runs to completion, so each is one action.  The host (the      *)
(* windowing system, the display set, the user, the clock) is the          *)
(* environment: its steps are actions too, and where a host step emits an  *)
(* event the action contains the whole handler registered for it.          *)
(*                                                                         *)
(* Host assumptions (nothing in src/ decides them):                        *)
(*  - 'moved' is emitted for user moves only (Windows behaviour); a        *)
(*    position forced by the program or by the host emits no 'moved';      *)
(*  - a compliant host obeys setPosition; a hostile host ("Windows 11      *)
(*    tries to help") leaves the surface where it was;                     *)
(*  - setSize is always obeyed;                                            *)
(*  - destruction of the surface and delivery of its 'closed' event are    *)
(*    two host steps; a destroyed surface emits no event but 'closed';     *)
(*  - timers fire in order of expiry; timers of equal delay fire in the    *)
(*    order they were set; timers of different delay that expire at the    *)
(*    same instant fire in either order;                                   *)
(*  - host events arrive at the instants at which a timer expires or is    *)
(*    set (every behaviour of the model is one of the program; the         *)
(*    arrival times in between are not explored).                          *)
(***************************************************************************)
EXTENDS Integers, Sequences, FiniteSets, TLC

VARIABLES
  appReady,    \* app.whenReady() has resolved and its callback has run
  mainWindow,  \* window.ts:11, 0 is null, n > 0 the n-th surface created
  created,     \* number of surfaces created so far
  winAlive,    \* the latest surface exists (isDestroyed() is false)
  winShown,    \* show() was called on it
  winPos,      \* host: its position {x, y}
  winSize,     \* host: its size {width, height}
  winOnTop,    \* host: its always-on-top attribute
  store,       \* electron-store key windowPosition: Null or {x, y}
  displays,    \* host: screen.getAllDisplays(), a sequence of work areas
  host,        \* "compliant" or "hostile"
  gotTheLock,  \* index.ts:45, what app.requestSingleInstanceLock() returned
  windows,     \* host: BrowserWindow.getAllWindows().length
  temperatureIntervalId,  \* temperature service: intervalId, 0 is null
  lastTemperatureData,    \* temperature service: 0 is null
  bluetoothIntervalId,    \* bluetooth-battery.ts: intervalId, 0 is null
  lastBluetoothData,      \* bluetooth-battery.ts: 0 is null
  intervals,   \* host: the active setInterval timers, as <<service, id>>
  fetches,     \* host: the fetches in flight of each service
  timers,      \* pending setTimeout callbacks, in the order they were set
  events,      \* number of external triggers so far
  op,          \* the handler or callback that ran last
  fired,       \* the timer whose callback ran last, or NoTimer
  calls,       \* host calls issued by the handler that ran last, in order
  threw,       \* the handler that ran last threw (a call on a destroyed surface)
  probe,       \* the position isPositionVisible was last applied to
  visible      \* and what it returned

\* The state of the two polling services.
polling == <<temperatureIntervalId, lastTemperatureData, bluetoothIntervalId,
             lastBluetoothData, intervals, fetches>>

vars == <<appReady, mainWindow, created, winAlive, winShown, winPos, winSize,
          winOnTop, store, displays, host, gotTheLock, windows, polling,
          timers, events, op, fired, calls, threw, probe, visible>>

-----------------------------------------------------------------------------
(* Program constants *)

WINDOW_WIDTH == 320
WINDOW_HEIGHT == 47
DESIRED_POSITION == [x |-> 0, y |-> 1696]

WindowSize == [width |-> WINDOW_WIDTH, height |-> WINDOW_HEIGHT]

\* store.ts: windowPosition: WindowPosition | null, default null
Null == [null |-> TRUE]

\* The delay passed to setTimeout for each kind of callback.
Delay(kind) ==
  CASE kind = "first"  -> 100    \* ready-to-show: forceDesiredPosition
    [] kind = "retry1" -> 100
    [] kind = "retry2" -> 500
    [] kind = "retry3" -> 1000
    [] kind = "resize" -> 50
    [] kind = "check1" -> 500    \* display events: forceDesiredPosition
    [] kind = "check2" -> 1500
    [] kind = "check3" -> 3000

RetryKinds == {"retry1", "retry2", "retry3"}
PassKinds  == {"first", "check1", "check2", "check3"}

-----------------------------------------------------------------------------
(* Bounds and input sets *)

MaxEvents == 2     \* external triggers per run

Primary == [x |-> 0, y |-> 0, width |-> 1920, height |-> 1080]
Lower   == [x |-> 0, y |-> 1080, width |-> 1920, height |-> 1080]
DisplayPool == {Primary, Lower}

UserPos == [x |-> 1900, y |-> 0]       \* visible on Primary only
OffPos  == [x |-> 5000, y |-> 5000]    \* visible on no display of the pool
PosPool == {DESIRED_POSITION, UserPos, OffPos}

ScaledSize == [width |-> 400, height |-> 59]   \* a 125 % DPI rescale
SizePool == {WindowSize, ScaledSize}

\* The modules of the polling services are loaded, nothing is started.
PollingIdle ==
  /\ temperatureIntervalId = 0
  /\ lastTemperatureData = 0
  /\ bluetoothIntervalId = 0
  /\ lastBluetoothData = 0
  /\ intervals = {}
  /\ fetches = [temperature |-> 0, bluetooth |-> 0]

NoTimer == [kind |-> "none", rem |-> 0, desired |-> Null, seq |-> 0, win |-> 0]

-----------------------------------------------------------------------------
(* Display Visibility Oracle: window.ts isPositionVisible *)

\* Mutant: the widget must lie wholly inside the work area.
OverlapsWorkAreaContained(position, display) ==
  /\ position.x >= display.x
  /\ position.x + WINDOW_WIDTH <= display.x + display.width
  /\ position.y >= display.y
  /\ position.y + WINDOW_HEIGHT <= display.y + display.height

\* Mutant: a widget that touches the edge of the work area counts.
OverlapsWorkAreaTouching(position, display) ==
  /\ position.x <= display.x + display.width
  /\ position.x + WINDOW_WIDTH >= display.x
  /\ position.y <= display.y + display.height
  /\ position.y + WINDOW_HEIGHT >= display.y

\* Mutant: only the horizontal extent is compared.
OverlapsWorkAreaHorizontally(position, display) ==
  position.x < display.x + display.width /\ position.x + WINDOW_WIDTH > display.x

\* The loop body: the widget at `position` overlaps the work area of `display`.
OverlapsWorkArea(position, display) ==
  LET windowRight == position.x + WINDOW_WIDTH
      windowBottom == position.y + WINDOW_HEIGHT
      isVisibleHorizontally ==
        position.x < display.x + display.width /\ windowRight > display.x
      isVisibleVertically ==
        position.y < display.y + display.height /\ windowBottom > display.y
  IN  isVisibleHorizontally /\ isVisibleVertically

\* for (const display of displays): return true at the first overlap.
RECURSIVE VisibleFrom(_, _, _)
VisibleFrom(position, ds, i) ==
  IF i > Len(ds) THEN FALSE
  ELSE IF OverlapsWorkArea(position, ds[i]) THEN TRUE
  ELSE VisibleFrom(position, ds, i + 1)

isPositionVisible(position) == VisibleFrom(position, displays, 1)

getDefaultPosition == DESIRED_POSITION

-----------------------------------------------------------------------------
(* Host calls *)

Call(name, args) == [op |-> name, args |-> args]

CallGetPosition == Call("getPosition", <<>>)
CallGetSize == Call("getSize", <<>>)
CallIsAlwaysOnTop == Call("isAlwaysOnTop", <<>>)
CallShow == Call("show", <<>>)
CallSetIgnoreMouseEvents == Call("setIgnoreMouseEvents", <<TRUE>>)
CallSetPosition(p) == Call("setPosition", <<p.x, p.y>>)
\* Mutant: the size is scaled with the display, 125 %.
CallSetSizeScaled == Call("setSize", <<(WINDOW_WIDTH * 5) \div 4, (WINDOW_HEIGHT * 5) \div 4>>)

CallSetSize == Call("setSize", <<WINDOW_WIDTH, WINDOW_HEIGHT>>)
CallSetAlwaysOnTop == Call("setAlwaysOnTop", <<TRUE, "screen-saver">>)

\* logWindowEvent('position-restored-successfully', undefined, finalState)
LogRestored == Call("log", <<"position-restored-successfully">>)

\* logWindowEvent('reset-window-position', { saveToStore }, state)
LogReset(saveToStore) == Call("log", <<"reset-window-position", saveToStore>>)

\* The liveness guard `!mainWindow || mainWindow.isDestroyed()` is false.
Live == mainWindow # 0 /\ winAlive

\* getWindowState(): three reads on a live surface, none otherwise.
getWindowState ==
  IF ~Live THEN <<>> ELSE <<CallGetPosition, CallGetSize, CallIsAlwaysOnTop>>

\* Where the host leaves the surface when setPosition(p) is called at `cur`.
HostSetPosition(cur, p) == IF host = "compliant" THEN p ELSE cur

Names(cs) == {cs[i].op : i \in 1..Len(cs)}
Count(cs, name) == Cardinality({i \in 1..Len(cs) : cs[i].op = name})

-----------------------------------------------------------------------------
(* Timers *)

\* A callback set now: `win` is the surface mainWindow refers to at this
\* moment (the callback itself reads mainWindow again when it runs).
Timer(kind, desired, seq) ==
  [kind |-> kind, rem |-> Delay(kind), desired |-> desired, seq |-> seq,
   win |-> mainWindow]

RemoveAt(s, i) == SubSeq(s, 1, i - 1) \o SubSeq(s, i + 1, Len(s))

\* One invocation of forceDesiredPosition that starts a ladder: its three
\* closures share the invocation's `desired`; seq names the invocation.
FreshSeq(ts) ==
  CHOOSE n \in 1..(Len(ts) + 1) :
    /\ \A i \in 1..Len(ts) : ts[i].seq # n
    /\ \A m \in 1..(n - 1) : \E i \in 1..Len(ts) : ts[i].seq = m

\* Mutant: a fourth retry, at 1000 ms again.
LadderOfFour(desired, ts) ==
  LET s == FreshSeq(ts)
  IN  <<Timer("retry1", desired, s), Timer("retry2", desired, s),
        Timer("retry3", desired, s), Timer("retry3", desired, s)>>

Ladder(desired, ts) ==
  LET s == FreshSeq(ts)
  IN  <<Timer("retry1", desired, s), Timer("retry2", desired, s),
        Timer("retry3", desired, s)>>

\* Mutant: the 3000 ms pass is not set.
TopologyChecksTwo ==
  <<Timer("check1", Null, 0), Timer("check2", Null, 0)>>

TopologyChecks ==
  <<Timer("check1", Null, 0), Timer("check2", Null, 0), Timer("check3", Null, 0)>>

\* timers[i] is the next to expire: none expires sooner, and none of the same
\* delay that was set before it expires at the same instant.
Due(i) ==
  /\ \A j \in 1..Len(timers) : timers[i].rem <= timers[j].rem
  /\ \A j \in 1..(i - 1) :
       ~(timers[j].rem = timers[i].rem
         /\ Delay(timers[j].kind) = Delay(timers[i].kind))

-----------------------------------------------------------------------------
(* The functions of window.ts, as effects on the surface.  Each returns the  *)
(* calls it issues and the geometry it leaves, starting from position `ps`   *)
(* and size `sz`.                                                            *)

\* forceDesiredSize()
forceDesiredSize(sz) ==
  IF ~Live THEN [calls |-> <<>>, size |-> sz]
  ELSE IF sz.width # WINDOW_WIDTH \/ sz.height # WINDOW_HEIGHT
       THEN [calls |-> <<CallGetSize>> \o getWindowState \o <<CallSetSize>>,
             size |-> WindowSize]
       ELSE [calls |-> <<CallGetSize>>, size |-> sz]

\* Mutant: the pass does not read the store; its target is the default.
forceDesiredPositionToDefault(rest) ==
  IF ~Live
  THEN [calls |-> <<>>, pos |-> winPos, size |-> winSize, onTop |-> winOnTop,
        timers |-> rest]
  ELSE LET desired == DESIRED_POSITION
           sizeDiffers == winSize.width # WINDOW_WIDTH \/ winSize.height # WINDOW_HEIGHT
           posDiffers == winPos.x # desired.x \/ winPos.y # desired.y
       IN  [calls |-> <<CallGetPosition, CallGetSize>> \o getWindowState
                      \o (IF sizeDiffers THEN <<CallSetSize>> ELSE <<>>)
                      \o (IF posDiffers
                          THEN <<CallSetPosition(desired), CallSetAlwaysOnTop>>
                          ELSE <<>>),
            pos |-> IF posDiffers THEN HostSetPosition(winPos, desired) ELSE winPos,
            size |-> IF sizeDiffers THEN WindowSize ELSE winSize,
            onTop |-> IF posDiffers THEN TRUE ELSE winOnTop,
            timers |-> IF posDiffers THEN rest \o Ladder(desired, rest) ELSE rest]

\* Mutant: a pass that corrects the size leaves the position for a later pass.
forceDesiredPositionSizeFirst(rest) ==
  IF ~Live
  THEN [calls |-> <<>>, pos |-> winPos, size |-> winSize, onTop |-> winOnTop,
        timers |-> rest]
  ELSE LET desired == IF store = Null THEN DESIRED_POSITION ELSE store
           sizeDiffers == winSize.width # WINDOW_WIDTH \/ winSize.height # WINDOW_HEIGHT
           posDiffers == ~sizeDiffers /\ (winPos.x # desired.x \/ winPos.y # desired.y)
       IN  [calls |-> <<CallGetPosition, CallGetSize>> \o getWindowState
                      \o (IF sizeDiffers THEN <<CallSetSize>> ELSE <<>>)
                      \o (IF posDiffers
                          THEN <<CallSetPosition(desired), CallSetAlwaysOnTop>>
                          ELSE <<>>),
            pos |-> IF posDiffers THEN HostSetPosition(winPos, desired) ELSE winPos,
            size |-> IF sizeDiffers THEN WindowSize ELSE winSize,
            onTop |-> IF posDiffers THEN TRUE ELSE winOnTop,
            timers |-> IF posDiffers THEN rest \o Ladder(desired, rest) ELSE rest]

\* Mutant: the position is forced without comparing it with the desired one.
forceDesiredPositionAlways(rest) ==
  IF ~Live
  THEN [calls |-> <<>>, pos |-> winPos, size |-> winSize, onTop |-> winOnTop,
        timers |-> rest]
  ELSE LET desired == IF store = Null THEN DESIRED_POSITION ELSE store
       IN  [calls |-> <<CallGetPosition, CallGetSize>> \o getWindowState
                      \o <<CallSetPosition(desired), CallSetAlwaysOnTop>>,
            pos |-> HostSetPosition(winPos, desired),
            size |-> winSize,
            onTop |-> TRUE,
            timers |-> rest \o Ladder(desired, rest)]

\* forceDesiredPosition(store), without its delayed callbacks; `rest` are the
\* timers left pending when it runs.
forceDesiredPosition(rest) ==
  IF ~Live
  THEN [calls |-> <<>>, pos |-> winPos, size |-> winSize, onTop |-> winOnTop,
        timers |-> rest]
  ELSE LET desired == IF store = Null THEN DESIRED_POSITION ELSE store
           sizeDiffers == winSize.width # WINDOW_WIDTH \/ winSize.height # WINDOW_HEIGHT
           posDiffers == winPos.x # desired.x \/ winPos.y # desired.y
       IN  [calls |-> <<CallGetPosition, CallGetSize>> \o getWindowState
                      \o (IF sizeDiffers THEN <<CallSetSize>> ELSE <<>>)
                      \o (IF posDiffers
                          THEN <<CallSetPosition(desired), CallSetAlwaysOnTop>>
                          ELSE <<>>),
            pos |-> IF posDiffers THEN HostSetPosition(winPos, desired) ELSE winPos,
            size |-> IF sizeDiffers THEN WindowSize ELSE winSize,
            onTop |-> IF posDiffers THEN TRUE ELSE winOnTop,
            timers |-> IF posDiffers THEN rest \o Ladder(desired, rest) ELSE rest]

\* Mutant: a step corrects the position and leaves always-on-top alone.
LadderStepMoveOnly(t, rest) ==
  IF ~Live
  THEN [calls |-> <<>>, pos |-> winPos, size |-> winSize, onTop |-> winOnTop,
        timers |-> rest]
  ELSE LET fs == forceDesiredSize(winSize)
           differs == winPos.x # t.desired.x \/ winPos.y # t.desired.y
           sample == IF t.kind = "retry3" \/ differs THEN getWindowState ELSE <<>>
       IN  [calls |-> fs.calls \o <<CallGetPosition>> \o sample
                      \o (IF differs THEN <<CallSetPosition(t.desired)>> ELSE <<>>),
            pos |-> IF differs THEN HostSetPosition(winPos, t.desired) ELSE winPos,
            size |-> fs.size,
            onTop |-> winOnTop,
            timers |-> rest]

\* Mutant: a step that finds the position wrong sets a further step.
LadderStepRearming(t, rest) ==
  IF ~Live
  THEN [calls |-> <<>>, pos |-> winPos, size |-> winSize, onTop |-> winOnTop,
        timers |-> rest]
  ELSE LET differs == winPos.x # t.desired.x \/ winPos.y # t.desired.y
       IN  [calls |-> <<CallGetPosition>>
                      \o (IF differs
                          THEN <<CallSetPosition(t.desired), CallSetAlwaysOnTop>>
                          ELSE <<>>),
            pos |-> IF differs THEN HostSetPosition(winPos, t.desired) ELSE winPos,
            size |-> winSize,
            onTop |-> IF differs THEN TRUE ELSE winOnTop,
            timers |-> IF differs
                       THEN Append(rest, Timer("retry3", t.desired, t.seq))
                       ELSE rest]

\* Mutant: every step that finds the position right records the success.
LadderStepReporting(t, rest) ==
  IF ~Live
  THEN [calls |-> <<>>, pos |-> winPos, size |-> winSize, onTop |-> winOnTop,
        timers |-> rest]
  ELSE LET fs == forceDesiredSize(winSize)
           differs == winPos.x # t.desired.x \/ winPos.y # t.desired.y
           sample == IF t.kind = "retry3" \/ differs THEN getWindowState ELSE <<>>
       IN  [calls |-> fs.calls \o <<CallGetPosition>> \o sample
                      \o (IF differs
                          THEN <<CallSetPosition(t.desired), CallSetAlwaysOnTop>>
                          ELSE <<LogRestored>>),
            pos |-> IF differs THEN HostSetPosition(winPos, t.desired) ELSE winPos,
            size |-> fs.size,
            onTop |-> IF differs THEN TRUE ELSE winOnTop,
            timers |-> rest]

\* The callbacks of the ladder (setTimeout at 100, 500 and 1000 ms); `t` is the
\* timer, t.desired the `desired` its closure captured.
LadderStep(t, rest) ==
  IF ~Live
  THEN [calls |-> <<>>, pos |-> winPos, size |-> winSize, onTop |-> winOnTop,
        timers |-> rest]
  ELSE LET fs == forceDesiredSize(winSize)
           differs == winPos.x # t.desired.x \/ winPos.y # t.desired.y
           \* retry3 samples finalState in both branches, the others only to log
           \* the retry
           sample == IF t.kind = "retry3" \/ differs THEN getWindowState ELSE <<>>
       IN  [calls |-> fs.calls \o <<CallGetPosition>> \o sample
                      \o (IF differs
                          THEN <<CallSetPosition(t.desired), CallSetAlwaysOnTop>>
                          ELSE IF t.kind = "retry3" THEN <<LogRestored>> ELSE <<>>),
            pos |-> IF differs THEN HostSetPosition(winPos, t.desired) ELSE winPos,
            size |-> fs.size,
            onTop |-> IF differs THEN TRUE ELSE winOnTop,
            timers |-> rest]

\* Mutant: the callback does not check that the surface is alive.
ResizeCorrectionUnguarded(rest) ==
  [calls |-> <<CallGetPosition, CallGetSize, CallIsAlwaysOnTop, CallSetSize>>,
   pos |-> winPos, size |-> WindowSize, onTop |-> winOnTop, timers |-> rest]

\* The callback of the 'resize' handler (setTimeout at 50 ms).
ResizeCorrection(rest) ==
  IF ~Live
  THEN [calls |-> <<>>, pos |-> winPos, size |-> winSize, onTop |-> winOnTop,
        timers |-> rest]
  ELSE [calls |-> getWindowState \o <<CallSetSize>>,
        pos |-> winPos, size |-> WindowSize, onTop |-> winOnTop, timers |-> rest]

\* What the callback of timer t does.
Callback(t, rest) ==
  IF t.kind \in PassKinds THEN forceDesiredPosition(rest)
  ELSE IF t.kind \in RetryKinds THEN LadderStep(t, rest)
  ELSE ResizeCorrection(rest)

-----------------------------------------------------------------------------
(* Initial state: the modules are loaded, the store holds what an earlier   *)
(* run left, app.whenReady() has not resolved yet.                           *)

InitialDisplays == {<<Lower>>, <<Primary, Lower>>}
InitialStore == {Null, UserPos, OffPos}

InitWith(h) ==
  /\ appReady = FALSE
  /\ mainWindow = 0
  /\ created = 0
  /\ winAlive = FALSE
  /\ winShown = FALSE
  /\ winPos = DESIRED_POSITION
  /\ winSize = WindowSize
  /\ winOnTop = FALSE
  /\ store \in InitialStore
  /\ displays \in InitialDisplays
  /\ host = h
  /\ gotTheLock = TRUE
  /\ windows = 0
  /\ PollingIdle
  /\ timers = <<>>
  /\ events = 0
  /\ op = "init"
  /\ fired = NoTimer
  /\ calls = <<>>
  /\ threw = FALSE
  /\ probe = Null
  /\ visible = FALSE

Init == InitWith("compliant")
InitHostile == InitWith("hostile")

\* A call on a null or destroyed surface throws ("Object has been destroyed").
Throws(cs) == cs # <<>> /\ ~Live

Ran(name, cs) ==
  /\ op' = name
  /\ fired' = NoTimer
  /\ calls' = cs
  /\ threw' = Throws(cs)

-----------------------------------------------------------------------------
(* window.ts createWindow, with setupWindowEvents *)

\* Mutant: the persisted position is used without asking isPositionVisible.
createWindowUnvalidated ==
  LET finalPosition == IF store # Null THEN store ELSE getDefaultPosition
  IN  /\ created' = created + 1
      /\ mainWindow' = created + 1
      /\ winAlive' = TRUE
      /\ winShown' = FALSE
      /\ winPos' = finalPosition
      /\ winSize' = WindowSize
      /\ winOnTop' = TRUE
      /\ op' = "createWindow"
      /\ fired' = NoTimer
      /\ calls' = <<CallSetIgnoreMouseEvents, CallGetPosition, CallGetSize,
                    CallIsAlwaysOnTop>>
      /\ threw' = FALSE
      /\ windows' = windows + 1
      /\ UNCHANGED <<store, displays, host, gotTheLock, polling, timers,
                     events, probe, visible>>

createWindow ==
  LET savedPosition == store
      finalPosition ==
        IF savedPosition # Null /\ isPositionVisible(savedPosition)
        THEN savedPosition ELSE getDefaultPosition
  IN  /\ created' = created + 1
      /\ mainWindow' = created + 1
      /\ winAlive' = TRUE
      /\ winShown' = FALSE
      /\ winPos' = finalPosition
      /\ winSize' = WindowSize
      /\ winOnTop' = TRUE
      /\ op' = "createWindow"
      /\ fired' = NoTimer
      /\ calls' = <<CallSetIgnoreMouseEvents, CallGetPosition, CallGetSize,
                    CallIsAlwaysOnTop>>
      /\ threw' = FALSE
      /\ windows' = windows + 1
      /\ UNCHANGED <<store, displays, host, gotTheLock, polling, timers,
                     events, probe, visible>>

\* index.ts app.whenReady().then(...): `if (!gotTheLock) return`, then
\* createTray, createWindow, setupDisplayEvents, app.on('activate').
AppReady ==
  /\ ~appReady
  /\ appReady' = TRUE
  /\ IF ~gotTheLock
     THEN /\ Ran("whenReady", <<>>)
          /\ UNCHANGED <<mainWindow, created, winAlive, winShown, winPos,
                         winSize, winOnTop, store, displays, host, gotTheLock,
                         polling, windows, timers, events, probe, visible>>
     ELSE createWindow

\* The ready callback has passed the lock test: the tray exists, the display
\* handlers and the 'activate' handler are registered.
Registered == appReady /\ gotTheLock

-----------------------------------------------------------------------------
(* Surface events: window.ts setupWindowEvents *)

\* Mutant: the default is persisted at every first show.
ReadyToShowOverwriting ==
  /\ winAlive /\ ~winShown
  /\ Ran("ready-to-show", getWindowState \o <<CallShow>>)
  /\ winShown' = TRUE
  /\ store' = DESIRED_POSITION
  /\ timers' = Append(timers, Timer("first", Null, 0))
  /\ UNCHANGED <<appReady, mainWindow, created, winAlive, winPos, winSize,
                 winOnTop, displays, host, gotTheLock, polling, windows,
                 events, probe, visible>>

\* 'ready-to-show', emitted once per surface
ReadyToShow ==
  /\ winAlive /\ ~winShown
  /\ IF mainWindow = 0
     THEN /\ Ran("ready-to-show", <<>>)
          /\ UNCHANGED <<winShown, store, timers>>
     ELSE /\ Ran("ready-to-show", getWindowState \o <<CallShow>>)
          /\ winShown' = TRUE
          /\ store' = IF store = Null THEN DESIRED_POSITION ELSE store
          /\ timers' = Append(timers, Timer("first", Null, 0))
  /\ UNCHANGED <<appReady, mainWindow, created, winAlive, winPos, winSize,
                 winOnTop, displays, host, gotTheLock, polling, windows,
                 events, probe, visible>>

\* Mutant: the handler persists the new position only if a display shows it.
UserMoveValidated(p) ==
  /\ winAlive /\ winShown
  /\ events < MaxEvents
  /\ p # winPos
  /\ winPos' = p
  /\ events' = events + 1
  /\ Ran("moved", <<CallGetPosition>> \o getWindowState)
  /\ store' = IF isPositionVisible(p) THEN p ELSE store
  /\ UNCHANGED <<appReady, mainWindow, created, winAlive, winShown, winSize,
                 winOnTop, displays, host, gotTheLock, polling, windows,
                 timers, probe, visible>>

\* The user drags the shown surface to p; the host emits 'moved'.
UserMove(p) ==
  /\ winAlive /\ winShown
  /\ events < MaxEvents
  /\ p # winPos
  /\ winPos' = p
  /\ events' = events + 1
  /\ IF mainWindow = 0
     THEN /\ Ran("moved", <<>>)
          /\ UNCHANGED store
     ELSE /\ Ran("moved", <<CallGetPosition>> \o getWindowState)
          /\ store' = p
  /\ UNCHANGED <<appReady, mainWindow, created, winAlive, winShown, winSize,
                 winOnTop, displays, host, gotTheLock, polling, windows,
                 timers, probe, visible>>

\* The host rescales the surface to size s and emits 'resize'.
HostResize(s) ==
  /\ winAlive
  /\ events < MaxEvents
  /\ s # winSize
  /\ winSize' = s
  /\ events' = events + 1
  /\ IF mainWindow = 0
     THEN /\ Ran("resize", <<>>)
          /\ UNCHANGED timers
     ELSE /\ Ran("resize", <<CallGetSize>> \o getWindowState)
          /\ timers' = IF s.width # WINDOW_WIDTH \/ s.height # WINDOW_HEIGHT
                       THEN Append(timers, Timer("resize", Null, 0))
                       ELSE timers
  /\ UNCHANGED <<appReady, mainWindow, created, winAlive, winShown, winPos,
                 winOnTop, store, displays, host, gotTheLock, polling, windows,
                 probe, visible>>

\* The host moves the surface on its own (no 'moved' event).
HostDrift(p) ==
  /\ winAlive
  /\ events < MaxEvents
  /\ p # winPos
  /\ winPos' = p
  /\ events' = events + 1
  /\ Ran("host-drift", <<>>)
  /\ UNCHANGED <<appReady, mainWindow, created, winAlive, winShown, winSize,
                 winOnTop, store, displays, host, gotTheLock, polling, windows,
                 timers, probe, visible>>

\* The host destroys the surface: isDestroyed() is true from here on, and the
\* surface has no geometry any more.
Destroy ==
  /\ winAlive
  /\ winAlive' = FALSE
  /\ winShown' = FALSE
  /\ winPos' = DESIRED_POSITION
  /\ winSize' = WindowSize
  /\ winOnTop' = FALSE
  /\ windows' = windows - 1
  /\ Ran("destroy", <<>>)
  /\ UNCHANGED <<appReady, mainWindow, created, store, displays, host,
                 gotTheLock, polling, timers, events, probe, visible>>

\* 'closed': mainWindow = null
Closed ==
  /\ created > 0 /\ ~winAlive /\ mainWindow = created
  /\ mainWindow' = 0
  /\ Ran("closed", <<>>)
  /\ UNCHANGED <<appReady, created, winAlive, winShown, winPos, winSize,
                 winOnTop, store, displays, host, gotTheLock, polling, windows,
                 timers, events, probe, visible>>

-----------------------------------------------------------------------------
(* window.ts resetWindowPosition, called from the tray menu (index.ts:85,   *)
(* saveToStore defaulted to true)                                            *)

\* Mutant: the default is persisted whatever saveToStore says.
resetWindowPositionSaving(saveToStore) ==
  IF mainWindow = 0
  THEN /\ Ran("resetWindowPosition", <<>>)
       /\ UNCHANGED <<winPos, winOnTop, store>>
  ELSE IF ~winAlive
  THEN \* no isDestroyed() check: setPosition is called and throws
       /\ Ran("resetWindowPosition", <<CallSetPosition(getDefaultPosition)>>)
       /\ UNCHANGED <<winPos, winOnTop, store>>
  ELSE /\ Ran("resetWindowPosition",
              <<CallSetPosition(getDefaultPosition), CallSetAlwaysOnTop>>
              \o getWindowState \o <<LogReset(saveToStore)>>)
       /\ winPos' = HostSetPosition(winPos, getDefaultPosition)
       /\ winOnTop' = TRUE
       /\ store' = getDefaultPosition

\* Mutant: a reset that is saved deletes the key, so that the next read takes
\* the default.
resetWindowPositionClearing(saveToStore) ==
  IF mainWindow = 0
  THEN /\ Ran("resetWindowPosition", <<>>)
       /\ UNCHANGED <<winPos, winOnTop, store>>
  ELSE IF ~winAlive
  THEN /\ Ran("resetWindowPosition", <<CallSetPosition(getDefaultPosition)>>)
       /\ UNCHANGED <<winPos, winOnTop, store>>
  ELSE /\ Ran("resetWindowPosition",
              <<CallSetPosition(getDefaultPosition), CallSetAlwaysOnTop>>
              \o getWindowState \o <<LogReset(saveToStore)>>)
       /\ winPos' = HostSetPosition(winPos, getDefaultPosition)
       /\ winOnTop' = TRUE
       /\ store' = IF saveToStore THEN Null ELSE store

resetWindowPosition(saveToStore) ==
  IF mainWindow = 0
  THEN /\ Ran("resetWindowPosition", <<>>)
       /\ UNCHANGED <<winPos, winOnTop, store>>
  ELSE IF ~winAlive
  THEN \* no isDestroyed() check: setPosition is called and throws
       /\ Ran("resetWindowPosition", <<CallSetPosition(getDefaultPosition)>>)
       /\ UNCHANGED <<winPos, winOnTop, store>>
  ELSE /\ Ran("resetWindowPosition",
              <<CallSetPosition(getDefaultPosition), CallSetAlwaysOnTop>>
              \o getWindowState \o <<LogReset(saveToStore)>>)
       /\ winPos' = HostSetPosition(winPos, getDefaultPosition)
       /\ winOnTop' = TRUE
       /\ store' = IF saveToStore THEN getDefaultPosition ELSE store

ResetPosition ==
  /\ Registered
  /\ events < MaxEvents
  /\ events' = events + 1
  /\ resetWindowPosition(TRUE)
  /\ UNCHANGED <<appReady, mainWindow, created, winAlive, winShown, winSize,
                 displays, host, gotTheLock, polling, windows, timers, probe,
                 visible>>

\* resetWindowPosition(store, saveToStore) called by another module of the
\* application, with either value of saveToStore.
ResetCall(saveToStore) ==
  /\ appReady
  /\ events < MaxEvents
  /\ events' = events + 1
  /\ resetWindowPosition(saveToStore)
  /\ UNCHANGED <<appReady, mainWindow, created, winAlive, winShown, winSize,
                 displays, host, gotTheLock, polling, windows, timers, probe,
                 visible>>

-----------------------------------------------------------------------------
(* Display events: window.ts setupDisplayEvents.  The three handlers have   *)
(* the same body.                                                            *)

\* Mutant: the handler does not return when there is no surface.
DisplayHandlerUnguarded(name) ==
  LET fs == forceDesiredSize(winSize)
  IN  /\ Ran(name, getWindowState \o fs.calls)
      /\ winSize' = fs.size
      /\ timers' = timers \o TopologyChecks

DisplayHandler(name) ==
  IF mainWindow = 0
  THEN /\ Ran(name, <<>>)
       /\ UNCHANGED <<winSize, timers>>
  ELSE LET fs == forceDesiredSize(winSize)
       IN  /\ Ran(name, getWindowState \o fs.calls)
           /\ winSize' = fs.size
           /\ timers' = timers \o TopologyChecks

DisplayEvent(name, ds) ==
  /\ Registered
  /\ events < MaxEvents
  /\ events' = events + 1
  /\ displays' = ds
  /\ DisplayHandler(name)
  /\ UNCHANGED <<appReady, mainWindow, created, winAlive, winShown, winPos,
                 winOnTop, store, host, gotTheLock, polling, windows, probe,
                 visible>>

Attached == {displays[i] : i \in 1..Len(displays)}

DisplayAdded(d) ==
  /\ d \notin Attached
  /\ DisplayEvent("display-added", Append(displays, d))

DisplayRemoved(i) ==
  /\ i \in 1..Len(displays)
  /\ DisplayEvent("display-removed", RemoveAt(displays, i))

DisplayMetricsChanged(i, d) ==
  /\ i \in 1..Len(displays)
  /\ d \notin (Attached \ {displays[i]})
  /\ DisplayEvent("display-metrics-changed", [displays EXCEPT ![i] = d])

-----------------------------------------------------------------------------
(* The clock *)

\* The time to the next expiry.
MinRem == CHOOSE r \in {timers[i].rem : i \in 1..Len(timers)} :
            \A i \in 1..Len(timers) : r <= timers[i].rem

\* The timers after time d has passed.
Elapse(ts, d) == [i \in 1..Len(ts) |-> [ts[i] EXCEPT !.rem = ts[i].rem - d]]

\* Mutant: a callback that corrects the position persists where it put it.
FirePersisting(i) ==
  /\ i \in 1..Len(timers)
  /\ Due(i)
  /\ LET t == timers[i]
         e == Callback(t, Elapse(RemoveAt(timers, i), MinRem))
     IN  /\ op' = "timer"
         /\ fired' = t
         /\ calls' = e.calls
         /\ threw' = Throws(e.calls)
         /\ winPos' = e.pos
         /\ winSize' = e.size
         /\ winOnTop' = e.onTop
         /\ timers' = e.timers
         /\ store' = IF "setPosition" \in Names(e.calls) THEN e.pos ELSE store
  /\ UNCHANGED <<appReady, mainWindow, created, winAlive, winShown, displays,
                 host, gotTheLock, polling, windows, events, probe, visible>>

\* Time passes until the next expiry; timer i expires and its callback runs.
Fire(i) ==
  /\ i \in 1..Len(timers)
  /\ Due(i)
  /\ LET t == timers[i]
         e == Callback(t, Elapse(RemoveAt(timers, i), MinRem))
     IN  /\ op' = "timer"
         /\ fired' = t
         /\ calls' = e.calls
         /\ threw' = Throws(e.calls)
         /\ winPos' = e.pos
         /\ winSize' = e.size
         /\ winOnTop' = e.onTop
         /\ timers' = e.timers
  /\ UNCHANGED <<appReady, mainWindow, created, winAlive, winShown, store,
                 displays, host, gotTheLock, polling, windows, events, probe,
                 visible>>

-----------------------------------------------------------------------------

Next ==
  \/ AppReady
  \/ ReadyToShow
  \/ \E p \in PosPool : UserMove(p)
  \/ \E s \in SizePool : HostResize(s)
  \/ \E p \in PosPool : HostDrift(p)
  \/ Destroy
  \/ Closed
  \/ ResetPosition
  \/ \E d \in DisplayPool : DisplayAdded(d)
  \/ \E i \in 1..2 : DisplayRemoved(i)
  \/ \E i \in 1..2, d \in DisplayPool : DisplayMetricsChanged(i, d)
  \/ \E i \in 1..Len(timers) : Fire(i)

Spec == Init /\ [][Next]_vars

\* The same program on a host that reports every change it makes: it never
\* moves the surface without an event.
NextReported ==
  \/ AppReady
  \/ ReadyToShow
  \/ \E p \in PosPool : UserMove(p)
  \/ \E s \in SizePool : HostResize(s)
  \/ Destroy
  \/ Closed
  \/ ResetPosition
  \/ \E d \in DisplayPool : DisplayAdded(d)
  \/ \E i \in 1..2 : DisplayRemoved(i)
  \/ \E i \in 1..2, d \in DisplayPool : DisplayMetricsChanged(i, d)
  \/ \E i \in 1..Len(timers) : Fire(i)

SpecReported == Init /\ [][NextReported]_vars

\* The program with resetWindowPosition as the rest of the application may
\* call it; the user moves the surface, the host does not.
NextReset ==
  \/ AppReady
  \/ ReadyToShow
  \/ \E p \in PosPool : UserMove(p)
  \/ Destroy
  \/ Closed
  \/ \E b \in BOOLEAN : ResetCall(b)
  \/ \E i \in 1..Len(timers) : Fire(i)

SpecReset == Init /\ [][NextReset]_vars

\* Resize events alone, as a DPI change produces them: the host passes
\* through more than one scaled size.
LargerSize == [width |-> 480, height |-> 71]   \* a 150 % DPI rescale
ResizePool == {WindowSize, ScaledSize, LargerSize}

NextResize ==
  \/ AppReady
  \/ ReadyToShow
  \/ \E s \in ResizePool : HostResize(s)
  \/ \E i \in 1..Len(timers) : Fire(i)

SpecResize == Init /\ [][NextResize]_vars

\* The same program on a host that never obeys setPosition: it leaves the
\* surface where it is, or moves it on its own.  The user does not move it.
\* Every pass starts a ladder there, so one trigger fewer is explored.
HostileEvents == MaxEvents - 1

NextHostile ==
  \/ AppReady
  \/ ReadyToShow
  \/ events < HostileEvents /\ \E s \in SizePool : HostResize(s)
  \/ events < HostileEvents /\ \E p \in PosPool : HostDrift(p)
  \/ Destroy
  \/ Closed
  \/ events < HostileEvents /\ \E d \in DisplayPool : DisplayAdded(d)
  \/ events < HostileEvents /\ \E i \in 1..2 : DisplayRemoved(i)
  \/ events < HostileEvents /\ \E i \in 1..2, d \in DisplayPool : DisplayMetricsChanged(i, d)
  \/ \E i \in 1..Len(timers) : Fire(i)

SpecHostile == InitHostile /\ [][NextHostile]_vars

\* The triggers alone on that host: first show, a resize and the removal of
\* the second display, on a surface that stays alive.  The event loop runs every callback whose
\* delay has expired.
NextTriggers ==
  \/ AppReady
  \/ ReadyToShow
  \/ events < HostileEvents /\ HostResize(ScaledSize)
  \/ events < HostileEvents /\ DisplayRemoved(2)
  \/ \E i \in 1..Len(timers) : Fire(i)

SpecTriggers ==
  /\ InitHostile
  /\ [][NextTriggers]_vars
  /\ WF_vars(\E i \in 1..Len(timers) : Fire(i))

-----------------------------------------------------------------------------
(* Process restarts.  When the surface is closed the application quits      *)
(* (index.ts 'window-all-closed'); the user starts it again later, possibly  *)
(* with other displays attached.  The store file is all that is left of the  *)
(* earlier run.  `created` and `events` count over all runs.                 *)

MaxRuns == 2       \* process runs

RestartDisplays == {<<Primary>>, <<Lower>>, <<Primary, Lower>>}

InitRestart ==
  /\ appReady = FALSE
  /\ mainWindow = 0
  /\ created = 0
  /\ winAlive = FALSE
  /\ winShown = FALSE
  /\ winPos = DESIRED_POSITION
  /\ winSize = WindowSize
  /\ winOnTop = FALSE
  /\ store \in {Null, OffPos}
  /\ displays \in RestartDisplays
  /\ host = "compliant"
  /\ gotTheLock = TRUE
  /\ windows = 0
  /\ PollingIdle
  /\ timers = <<>>
  /\ events = 0
  /\ op = "init"
  /\ fired = NoTimer
  /\ calls = <<>>
  /\ threw = FALSE
  /\ probe = Null
  /\ visible = FALSE

\* Mutant: the position is kept in memory only and lost with the process.
RestartForgetting(ds) ==
  /\ appReady /\ mainWindow = 0 /\ ~winAlive
  /\ created < MaxRuns
  /\ appReady' = FALSE
  /\ timers' = <<>>
  /\ displays' = ds
  /\ store' = Null
  /\ Ran("restart", <<>>)
  /\ UNCHANGED <<mainWindow, created, winAlive, winShown, winPos, winSize,
                 winOnTop, host, gotTheLock, polling, windows, events, probe,
                 visible>>

\* 'window-all-closed': app.quit(); the process ends, its timers with it, and
\* a new process is started with displays ds attached.
Restart(ds) ==
  /\ appReady /\ mainWindow = 0 /\ ~winAlive
  /\ created < MaxRuns
  /\ appReady' = FALSE
  /\ timers' = <<>>
  /\ displays' = ds
  /\ store' = store
  /\ Ran("restart", <<>>)
  /\ UNCHANGED <<mainWindow, created, winAlive, winShown, winPos, winSize,
                 winOnTop, host, gotTheLock, polling, windows, events, probe,
                 visible>>

NextRestart ==
  \/ AppReady
  \/ ReadyToShow
  \/ \E p \in PosPool : UserMove(p)
  \/ Destroy
  \/ Closed
  \/ \E ds \in RestartDisplays : Restart(ds)
  \/ \E i \in 1..Len(timers) : Fire(i)

SpecRestart == InitRestart /\ [][NextRestart]_vars

-----------------------------------------------------------------------------
(* A second surface.  index.ts registers an 'activate' handler that creates *)
(* a surface when none exists.  Whether the host delivers 'activate' after   *)
(* the surface was closed and before the application has quit is the host's  *)
(* choice; here it does.                                                     *)

MaxSurfaces == 2   \* surfaces created in one run

\* Mutant: 'activate' creates a surface whether or not one exists.
ActivateAlways ==
  /\ Registered
  /\ created < MaxSurfaces
  /\ createWindow
  /\ UNCHANGED appReady

\* app.on('activate'): BrowserWindow.getAllWindows().length === 0.  The host
\* delivers it after the 'closed' event of the surface that is gone.
Activate ==
  /\ Registered
  /\ windows = 0
  /\ mainWindow = 0
  /\ created < MaxSurfaces
  /\ createWindow
  /\ UNCHANGED appReady

NextActivate ==
  \/ AppReady
  \/ ReadyToShow
  \/ DisplayRemoved(2)
  \/ Destroy
  \/ Closed
  \/ Activate
  \/ \E i \in 1..Len(timers) : Fire(i)

SpecActivate == Init /\ [][NextActivate]_vars

\* The same with a process that may have lost the single-instance lock to an
\* instance that is already running, and with the tray in use.
InitInstance ==
  /\ appReady = FALSE
  /\ mainWindow = 0
  /\ created = 0
  /\ winAlive = FALSE
  /\ winShown = FALSE
  /\ winPos = DESIRED_POSITION
  /\ winSize = WindowSize
  /\ winOnTop = FALSE
  /\ store \in InitialStore
  /\ displays \in InitialDisplays
  /\ host = "compliant"
  /\ gotTheLock \in BOOLEAN
  /\ windows = 0
  /\ PollingIdle
  /\ timers = <<>>
  /\ events = 0
  /\ op = "init"
  /\ fired = NoTimer
  /\ calls = <<>>
  /\ threw = FALSE
  /\ probe = Null
  /\ visible = FALSE

NextInstance ==
  \/ AppReady
  \/ ReadyToShow
  \/ DisplayRemoved(2)
  \/ ResetPosition
  \/ Destroy
  \/ Closed
  \/ Activate
  \/ \E i \in 1..Len(timers) : Fire(i)

SpecInstance == InitInstance /\ [][NextInstance]_vars

-----------------------------------------------------------------------------
(* The polling services: the temperature service and bluetooth-battery.ts.  *)
(* Each keeps a module variable intervalId and the last reading it fetched.  *)
(* A fetch is asynchronous: it is started by the call, and its result        *)
(* arrives in a later step of the event loop.  Nothing in src/ calls the     *)
(* start and stop functions; the rest of the application may call them at    *)
(* any time.                                                                 *)

MaxFetches == 2    \* fetches in flight per service

Readings == {1, 2} \* what a successful fetch returns; 0 is null

Did(name, cs) ==
  /\ op' = name
  /\ fired' = NoTimer
  /\ calls' = cs
  /\ threw' = FALSE

CallSetInterval(fn, ms) == Call("setInterval", <<fn, ms>>)
CallClearInterval(id) == Call("clearInterval", <<id>>)
CallSend(channel, data) == Call("send", <<channel, data>>)
\* The awaited fetch and what it returned.
Returned(fn, data) == Call(fn, <<data>>)

\* The handle setInterval returns: one that no active interval has.
NewInterval(s) ==
  CHOOSE n \in 1..(Cardinality(intervals) + 1) :
    /\ <<s, n>> \notin intervals
    /\ \A m \in 1..(n - 1) : <<s, m>> \in intervals

\* startTemperatureService()
startTemperatureService ==
  IF temperatureIntervalId # 0
  THEN /\ Did("startTemperatureService", <<>>)
       /\ UNCHANGED <<temperatureIntervalId, intervals, fetches>>
  ELSE LET id == NewInterval("temperature")
       IN  /\ Did("startTemperatureService",
                  <<CallSetInterval("fetchAndLogTemperature", 15000)>>)
           /\ fetches' = [fetches EXCEPT !.temperature = @ + 1]
           /\ intervals' = intervals \cup {<<"temperature", id>>}
           /\ temperatureIntervalId' = id

\* stopTemperatureService()
stopTemperatureService ==
  IF temperatureIntervalId # 0
  THEN /\ Did("stopTemperatureService", <<CallClearInterval(temperatureIntervalId)>>)
       /\ intervals' = intervals \ {<<"temperature", temperatureIntervalId>>}
       /\ temperatureIntervalId' = 0
  ELSE /\ Did("stopTemperatureService", <<>>)
       /\ UNCHANGED <<temperatureIntervalId, intervals>>

\* Mutant: the previous interval is not cleared.
startBluetoothBatteryMonitoringAdding ==
  LET id == NewInterval("bluetooth")
  IN  /\ Did("startBluetoothBatteryMonitoring",
             <<CallSetInterval("fetchAndUpdateBluetoothBattery", 30000)>>)
      /\ fetches' = [fetches EXCEPT !.bluetooth = @ + 1]
      /\ intervals' = intervals \cup {<<"bluetooth", id>>}
      /\ bluetoothIntervalId' = id

\* startBluetoothBatteryMonitoring()
startBluetoothBatteryMonitoring ==
  LET id == NewInterval("bluetooth")
      clear == IF bluetoothIntervalId # 0
               THEN <<CallClearInterval(bluetoothIntervalId)>> ELSE <<>>
  IN  /\ Did("startBluetoothBatteryMonitoring",
             clear \o <<CallSetInterval("fetchAndUpdateBluetoothBattery", 30000)>>)
      /\ fetches' = [fetches EXCEPT !.bluetooth = @ + 1]
      /\ intervals' = (intervals \ {<<"bluetooth", bluetoothIntervalId>>})
                        \cup {<<"bluetooth", id>>}
      /\ bluetoothIntervalId' = id

\* stopBluetoothBatteryMonitoring()
stopBluetoothBatteryMonitoring ==
  IF bluetoothIntervalId # 0
  THEN /\ Did("stopBluetoothBatteryMonitoring", <<CallClearInterval(bluetoothIntervalId)>>)
       /\ intervals' = intervals \ {<<"bluetooth", bluetoothIntervalId>>}
       /\ bluetoothIntervalId' = 0
  ELSE /\ Did("stopBluetoothBatteryMonitoring", <<>>)
       /\ UNCHANGED <<bluetoothIntervalId, intervals>>

\* Mutant: the cache takes whatever the fetch returned.
fetchAndLogTemperatureCaching(data) ==
  /\ lastTemperatureData' = data
  /\ Did("fetchAndLogTemperature",
         <<Returned("fetchTemperatureData", data)>>
         \o (IF data # 0 /\ Live THEN <<CallSend("temperature-update", data)>> ELSE <<>>))

\* fetchAndLogTemperature(), from the point where the awaited
\* fetchTemperatureData() has returned `data`
fetchAndLogTemperature(data) ==
  IF data # 0
  THEN /\ lastTemperatureData' = data
       /\ Did("fetchAndLogTemperature",
              <<Returned("fetchTemperatureData", data)>>
              \o (IF Live THEN <<CallSend("temperature-update", data)>> ELSE <<>>))
  ELSE /\ Did("fetchAndLogTemperature", <<Returned("fetchTemperatureData", data)>>)
       /\ UNCHANGED lastTemperatureData

\* fetchAndUpdateBluetoothBattery(), from the point where the awaited
\* fetchBluetoothBatteryData() has returned `data`
fetchAndUpdateBluetoothBattery(data) ==
  IF data # 0
  THEN /\ lastBluetoothData' = data
       /\ Did("fetchAndUpdateBluetoothBattery",
              <<Returned("fetchBluetoothBatteryData", data)>>
              \o (IF Live THEN <<CallSend("bluetooth-battery-update", data)>> ELSE <<>>))
  ELSE /\ Did("fetchAndUpdateBluetoothBattery",
              <<Returned("fetchBluetoothBatteryData", data)>>)
       /\ UNCHANGED lastBluetoothData

getLastTemperatureData == lastTemperatureData
getLastBluetoothBatteryData == lastBluetoothData

\* What the services leave alone.
Surface == <<appReady, mainWindow, created, winAlive, winShown, winPos, winSize,
             winOnTop, store, displays, host, gotTheLock, windows, timers,
             events, probe, visible>>

StartTemperature ==
  /\ temperatureIntervalId # 0 \/ fetches.temperature < MaxFetches
  /\ startTemperatureService
  /\ UNCHANGED <<Surface, lastTemperatureData, bluetoothIntervalId, lastBluetoothData>>

StopTemperature ==
  /\ stopTemperatureService
  /\ UNCHANGED <<Surface, lastTemperatureData, bluetoothIntervalId,
                 lastBluetoothData, fetches>>

StartBluetooth ==
  /\ fetches.bluetooth < MaxFetches
  /\ startBluetoothBatteryMonitoring
  /\ UNCHANGED <<Surface, temperatureIntervalId, lastTemperatureData, lastBluetoothData>>

StopBluetooth ==
  /\ stopBluetoothBatteryMonitoring
  /\ UNCHANGED <<Surface, temperatureIntervalId, lastTemperatureData,
                 lastBluetoothData, fetches>>

\* An interval of service s expires: its callback starts a fetch.
IntervalFires(s) ==
  /\ \E e \in intervals : e[1] = s
  /\ fetches[s] < MaxFetches
  /\ fetches' = [fetches EXCEPT ![s] = @ + 1]
  /\ Did("interval", <<>>)
  /\ UNCHANGED <<Surface, temperatureIntervalId, lastTemperatureData,
                 bluetoothIntervalId, lastBluetoothData, intervals>>

\* A fetch of the temperature service ends; it returns `data` (0: it failed).
TemperatureFetched(data) ==
  /\ fetches.temperature > 0
  /\ fetches' = [fetches EXCEPT !.temperature = @ - 1]
  /\ fetchAndLogTemperature(data)
  /\ UNCHANGED <<Surface, temperatureIntervalId, bluetoothIntervalId,
                 lastBluetoothData, intervals>>

BluetoothFetched(data) ==
  /\ fetches.bluetooth > 0
  /\ fetches' = [fetches EXCEPT !.bluetooth = @ - 1]
  /\ fetchAndUpdateBluetoothBattery(data)
  /\ UNCHANGED <<Surface, temperatureIntervalId, lastTemperatureData,
                 bluetoothIntervalId, intervals>>

InitPolling ==
  /\ appReady = FALSE
  /\ mainWindow = 0
  /\ created = 0
  /\ winAlive = FALSE
  /\ winShown = FALSE
  /\ winPos = DESIRED_POSITION
  /\ winSize = WindowSize
  /\ winOnTop = FALSE
  /\ store = Null
  /\ displays = <<Primary>>
  /\ host = "compliant"
  /\ gotTheLock = TRUE
  /\ windows = 0
  /\ PollingIdle
  /\ timers = <<>>
  /\ events = 0
  /\ op = "init"
  /\ fired = NoTimer
  /\ calls = <<>>
  /\ threw = FALSE
  /\ probe = Null
  /\ visible = FALSE

NextPolling ==
  \/ AppReady
  \/ Destroy
  \/ Closed
  \/ StartTemperature
  \/ StopTemperature
  \/ StartBluetooth
  \/ StopBluetooth
  \/ \E s \in {"temperature", "bluetooth"} : IntervalFires(s)
  \/ \E data \in Readings \cup {0} : TemperatureFetched(data)
  \/ \E data \in Readings \cup {0} : BluetoothFetched(data)

SpecPolling == InitPolling /\ [][NextPolling]_vars

-----------------------------------------------------------------------------
(* The visibility oracle on its own: any display set, any position.         *)

MaxDisplays == 2   \* displays attached at once

Right == [x |-> 1920, y |-> 0, width |-> 1920, height |-> 1080]
OracleDisplayPool == {Primary, Lower, Right}

\* Coordinates on and next to the edges of the work areas of the pool.
OracleXs == {-320, -319, 0, 1599, 1600, 1919, 1920, 3840, 5000}
OracleYs == {-47, -46, 0, 1033, 1079, 1080, 1696, 2160, 5000}
OraclePositions == {[x |-> a, y |-> b] : a \in OracleXs, b \in OracleYs}

\* Positions off the grid: 20 px of the widget on Primary, and a widget left
\* of and below Primary.
EdgePos == [x |-> 1900, y |-> 0]
BelowLeftPos == [x |-> -100, y |-> 1696]
ProbePositions == OraclePositions \cup {EdgePos, BelowLeftPos}

InitOracle ==
  /\ appReady = FALSE
  /\ mainWindow = 0
  /\ created = 0
  /\ winAlive = FALSE
  /\ winShown = FALSE
  /\ winPos = DESIRED_POSITION
  /\ winSize = WindowSize
  /\ winOnTop = FALSE
  /\ store = Null
  /\ displays = <<>>
  /\ host = "compliant"
  /\ gotTheLock = TRUE
  /\ windows = 0
  /\ PollingIdle
  /\ timers = <<>>
  /\ events = 0
  /\ op = "init"
  /\ fired = NoTimer
  /\ calls = <<>>
  /\ threw = FALSE
  /\ probe = Null
  /\ visible = FALSE

\* isPositionVisible(p) is called.
Probe(p) ==
  /\ probe' = p
  /\ visible' = isPositionVisible(p)
  /\ op' = "isPositionVisible"
  /\ UNCHANGED <<appReady, mainWindow, created, winAlive, winShown, winPos,
                 winSize, winOnTop, store, displays, host, gotTheLock, polling,
                 windows, timers, events, fired, calls, threw>>

\* The host attaches a display.
Attach(d) ==
  /\ Len(displays) < MaxDisplays
  /\ d \notin Attached
  /\ displays' = Append(displays, d)
  /\ op' = "attach"
  /\ UNCHANGED <<appReady, mainWindow, created, winAlive, winShown, winPos,
                 winSize, winOnTop, store, host, gotTheLock, polling, windows,
                 timers, events, fired, calls, threw, probe, visible>>

\* The host detaches a display.
Detach(i) ==
  /\ i \in 1..Len(displays)
  /\ displays' = RemoveAt(displays, i)
  /\ op' = "detach"
  /\ UNCHANGED <<appReady, mainWindow, created, winAlive, winShown, winPos,
                 winSize, winOnTop, store, host, gotTheLock, polling, windows,
                 timers, events, fired, calls, threw, probe, visible>>

NextOracle ==
  \/ \E p \in ProbePositions : Probe(p)
  \/ \E d \in OracleDisplayPool : Attach(d)
  \/ \E i \in 1..Len(displays) : Detach(i)

SpecOracle == InitOracle /\ [][NextOracle]_vars

-----------------------------------------------------------------------------
(* C10.  Visibility oracle: isPositionVisible(p) is true if and only if     *)
(* some attached display has a work area {x, y, width, height} with         *)
(* p.x < x + width, p.x + WINDOW_WIDTH > x, p.y < y + height and            *)
(* p.y + WINDOW_HEIGHT > y: half-open overlap on both axes; partial overlap *)
(* counts, containment is not required.  Checked for the position of every  *)
(* call and, in every state, for every position of the input set.           *)

HalfOpenOverlap(p, d) ==
  /\ p.x < d.x + d.width
  /\ p.x + 320 > d.x
  /\ p.y < d.y + d.height
  /\ p.y + 47 > d.y

SomeDisplayOverlaps(p) == \E i \in 1..Len(displays) : HalfOpenOverlap(p, displays[i])

C10_VisibilityOracle ==
  /\ op = "isPositionVisible" => (visible <=> SomeDisplayOverlaps(probe))
  /\ \A p \in OraclePositions : isPositionVisible(p) <=> SomeDisplayOverlaps(p)

\* A call that returned true for a widget only partly on the one display.
C10_Witness ==
  /\ op = "isPositionVisible"
  /\ visible
  /\ displays = <<Primary>>
  /\ probe = [x |-> 1919, y |-> 1079]

-----------------------------------------------------------------------------
(* Vocabulary of the claims *)

\* What forceDesiredPosition reads as its target: the persisted position, or
\* the default when none is stored.
PersistedOrDefault == IF store = Null THEN [x |-> 0, y |-> 1696] ELSE store

\* The desired position of the data model: the persisted position if it is
\* visible on the attached displays, otherwise the default.
ResolvedDesired ==
  IF store # Null /\ SomeDisplayOverlaps(store) THEN store
  ELSE [x |-> 0, y |-> 1696]

SizeIsDesired(sz) == sz.width = 320 /\ sz.height = 47

DisplayOps == {"display-added", "display-removed", "display-metrics-changed"}
TopologyKinds == {"check1", "check2", "check3"}

NoCorrectiveCall(cs) == Names(cs) \cap {"setPosition", "setSize", "setAlwaysOnTop"} = {}

\* Every setPosition among the calls cs targets position p.
SetPositionsTarget(cs, p) ==
  \A i \in 1..Len(cs) : cs[i].op = "setPosition" => cs[i].args = <<p.x, p.y>>

\* The timers left of ts once ts[i] has expired.
Remaining(ts, i) == Elapse(RemoveAt(ts, i), ts[i].rem)

IsPrefix(a, b) == Len(a) <= Len(b) /\ SubSeq(b, 1, Len(a)) = a

-----------------------------------------------------------------------------
(* C1.  Retry ladder bound.  A pass of forceDesiredPosition that finds the  *)
(* position different from the desired one issues one setPosition and sets  *)
(* exactly three callbacks, at 100, 500 and 1000 ms, which share the        *)
(* desired position of the pass.  Each of them, finding the position still  *)
(* wrong, re-issues setPosition for that position, and none of them sets a  *)
(* callback; when the 1000 ms one has fired, no callback of the sequence is *)
(* pending.                                                                  *)

C1_LadderStarted ==
  (op' = "timer" /\ fired'.kind \in PassKinds /\ Live /\ winPos # PersistedOrDefault) =>
    /\ Count(calls', "setPosition") = 1
    /\ SetPositionsTarget(calls', PersistedOrDefault)
    /\ Len(timers') = Len(timers) + 2
    /\ \E i \in 1..Len(timers) :
         /\ timers[i] = fired'
         /\ IsPrefix(Remaining(timers, i), timers')
    /\ LET n == Len(timers) - 1
           r1 == timers'[n + 1]
           r2 == timers'[n + 2]
           r3 == timers'[n + 3]
       IN  /\ r1.kind = "retry1" /\ r1.rem = 100
           /\ r2.kind = "retry2" /\ r2.rem = 500
           /\ r3.kind = "retry3" /\ r3.rem = 1000
           /\ \A r \in {r1, r2, r3} : r.desired = PersistedOrDefault /\ r.seq = r1.seq
           /\ \A j \in 1..n : timers'[j].seq # r1.seq

C1_LadderStep ==
  (op' = "timer" /\ fired'.kind \in RetryKinds) =>
    /\ Len(timers') = Len(timers) - 1
    /\ (Live /\ winPos # fired'.desired) =>
         /\ Count(calls', "setPosition") = 1
         /\ SetPositionsTarget(calls', fired'.desired)
    /\ fired'.kind = "retry3" =>
         \A j \in 1..Len(timers') : timers'[j].seq # fired'.seq

C1_RetryLadderBound == [][C1_LadderStarted /\ C1_LadderStep]_vars

\* On the hostile host the 1000 ms step has re-issued the correction, the
\* position is still wrong and nothing is pending.
C1_Witness ==
  /\ host = "hostile"
  /\ op = "timer" /\ fired.kind = "retry3"
  /\ Count(calls, "setPosition") = 1
  /\ winPos # fired.desired
  /\ timers = <<>>

-----------------------------------------------------------------------------
(* C2.  No-visible-display fallback over the start-up sequence: when the    *)
(* persisted position is visible on no attached display, then once          *)
(* createWindow, the ready-to-show handler, the pass it sets at 100 ms and   *)
(* every retry of that pass have run, with no host event in between, the     *)
(* surface is at the default position {0, 1696} and not at the persisted     *)
(* position.                                                                 *)

StartupDone == events = 0 /\ Live /\ winShown /\ timers = <<>>

C2_StartupFallback ==
  (StartupDone /\ store # Null /\ ~SomeDisplayOverlaps(store)) =>
    (winPos = [x |-> 0, y |-> 1696] /\ winPos # store)

-----------------------------------------------------------------------------
(* C3.  A user move is never fought: after a 'moved' event the new position *)
(* is the persisted position, and a pending callback that fires next leaves *)
(* the surface where the user put it.                                        *)

C3_MovedIsDesired == op' = "moved" => store' = winPos'

C3_NotMovedAway == (op = "moved" /\ op' = "timer") => winPos' = winPos

C3_UserMoveNotFought == [][C3_MovedIsDesired /\ C3_NotMovedAway]_vars

-----------------------------------------------------------------------------
(* C4.  The position a reconciliation pass set by a display event moves the *)
(* surface to is the persisted position if that is visible on the attached  *)
(* displays and the default otherwise; a pass never moves the surface to a   *)
(* persisted position that no display shows.                                 *)

C4_TopologyDesiredResolved ==
  (op = "timer" /\ fired.kind \in TopologyKinds) =>
    SetPositionsTarget(calls, ResolvedDesired)

-----------------------------------------------------------------------------
(* C5.  Liveness guard: a delayed callback that fires when the surface is   *)
(* destroyed, or when the reference was cleared by 'closed', issues no host  *)
(* call and does not throw.                                                  *)

C5_LivenessGuard ==
  (op = "timer" /\ (mainWindow = 0 \/ ~winAlive)) => (calls = <<>> /\ ~threw)

\* The 500 ms retry fired on a destroyed surface whose reference was not
\* cleared yet.
C5_Witness ==
  /\ op = "timer" /\ fired.kind = "retry2"
  /\ mainWindow # 0 /\ ~winAlive
  /\ calls = <<>>

-----------------------------------------------------------------------------
(* C6.  Stale-handle safety: an operation attempted once the surface is     *)
(* destroyed issues no host call and does not throw, also while the          *)
(* reference is not yet cleared.                                             *)

C6_StaleHandleSafe ==
  (created > 0 /\ ~winAlive) => (calls = <<>> /\ ~threw)

-----------------------------------------------------------------------------
(* C7.  Idempotence: with the size equal to 320 x 47 and the position equal *)
(* to the desired one, forceDesiredPosition issues no setSize, setPosition   *)
(* or setAlwaysOnTop, sets no callback and leaves the surface and the        *)
(* persisted position as they are; forceDesiredSize (display events, ladder  *)
(* steps) issues no setSize when the size is right.                          *)

C7_PassIdempotent ==
  (/\ op' = "timer" /\ fired'.kind \in PassKinds
   /\ Live /\ SizeIsDesired(winSize) /\ winPos = PersistedOrDefault) =>
    /\ NoCorrectiveCall(calls')
    /\ Len(timers') = Len(timers) - 1
    /\ UNCHANGED <<winPos, winSize, winOnTop, store>>

C7_SizeIdempotent ==
  (/\ op' \in DisplayOps \/ (op' = "timer" /\ fired'.kind \in RetryKinds)
   /\ Live /\ SizeIsDesired(winSize)) =>
    /\ "setSize" \notin Names(calls')
    /\ UNCHANGED <<winSize, store>>

C7_Idempotence == [][C7_PassIdempotent /\ C7_SizeIdempotent]_vars

\* A pass has run on a correct geometry, as the second of two in a row.
C7_Witness ==
  /\ op = "timer" /\ fired.kind = "check2"
  /\ Live /\ SizeIsDesired(winSize) /\ winPos = PersistedOrDefault
  /\ NoCorrectiveCall(calls)
  /\ calls # <<>>

-----------------------------------------------------------------------------
(* C8.  Topology-change cadence: a display event received while the         *)
(* reference is set runs forceDesiredSize once and sets exactly three        *)
(* passes, at 500, 1500 and 3000 ms; the size is corrected before any of     *)
(* them runs, and a pending callback stays pending until it fires itself.    *)

C8_EventSchedules ==
  (op' \in DisplayOps /\ mainWindow # 0) =>
    /\ Len(timers') = Len(timers) + 3
    /\ IsPrefix(timers, timers')
    /\ LET n == Len(timers)
       IN  /\ timers'[n + 1].kind = "check1" /\ timers'[n + 1].rem = 500
           /\ timers'[n + 2].kind = "check2" /\ timers'[n + 2].rem = 1500
           /\ timers'[n + 3].kind = "check3" /\ timers'[n + 3].rem = 3000
    /\ Count(calls', "setSize") = IF Live /\ ~SizeIsDesired(winSize) THEN 1 ELSE 0
    /\ Live => SizeIsDesired(winSize')
    /\ Count(calls', "setPosition") = 0

C8_NeverCancelled ==
  IF op' = "timer"
  THEN \E i \in 1..Len(timers) :
         timers[i] = fired' /\ IsPrefix(Remaining(timers, i), timers')
  ELSE IsPrefix(timers, timers')

C8_TopologyCadence == [][C8_EventSchedules /\ C8_NeverCancelled]_vars

\* A display was added, the size was wrong and was corrected, and the three
\* passes are pending.
C8_Witness ==
  /\ op = "display-added"
  /\ Live
  /\ Count(calls, "setSize") = 1
  /\ Len(timers) >= 3
  /\ timers[Len(timers)].kind = "check3" /\ timers[Len(timers)].rem = 3000

-----------------------------------------------------------------------------
(* C9.  User-move short-circuit: the 'moved' handler overwrites the         *)
(* persisted position with the current position of the surface, visible or   *)
(* not, issues no setPosition, setSize or setAlwaysOnTop and sets no         *)
(* callback.                                                                 *)

C9_MovedPersists ==
  op' = "moved" =>
    /\ store' = winPos'
    /\ NoCorrectiveCall(calls')
    /\ timers' = timers
    /\ UNCHANGED <<winSize, winOnTop>>

C9_UserMoveShortCircuit == [][C9_MovedPersists]_vars

\* A move to a position no display shows was persisted.
C9_Witness ==
  /\ op = "moved"
  /\ store = [x |-> 5000, y |-> 5000]
  /\ ~SomeDisplayOverlaps(store)
  /\ winPos = store

-----------------------------------------------------------------------------
(* C11.  Visibility oracle on the reference cases, widget 320 x 47: with    *)
(* the single display {0, 0, 1920, 1080}, position {1900, 0} is visible (20  *)
(* px of horizontal overlap) and position {-100, 1696} is not; with a second *)
(* display whose work area covers y = 1696 and overlaps x in [-100, 220)     *)
(* attached as well, {-100, 1696} is visible.                                *)

CoversBelowLeft(d) ==
  /\ d.y <= 1696 /\ 1696 < d.y + d.height
  /\ d.x < 220 /\ d.x + d.width > -100

C11_ReferenceCases ==
  /\ displays = <<[x |-> 0, y |-> 0, width |-> 1920, height |-> 1080]>> =>
        /\ isPositionVisible([x |-> 1900, y |-> 0])
        /\ ~isPositionVisible([x |-> -100, y |-> 1696])
        /\ (op = "isPositionVisible" /\ probe = [x |-> 1900, y |-> 0]) => visible
        /\ (op = "isPositionVisible" /\ probe = [x |-> -100, y |-> 1696]) => ~visible
  /\ (/\ Len(displays) = 2
      /\ displays[1] = [x |-> 0, y |-> 0, width |-> 1920, height |-> 1080]
      /\ CoversBelowLeft(displays[2])) =>
        /\ isPositionVisible([x |-> -100, y |-> 1696])
        /\ (op = "isPositionVisible" /\ probe = [x |-> -100, y |-> 1696]) => visible

\* The call for {-100, 1696} returned true once the lower display was added
\* to the first.
C11_Witness ==
  /\ op = "isPositionVisible"
  /\ probe = [x |-> -100, y |-> 1696]
  /\ visible
  /\ Len(displays) = 2
  /\ displays[1] = [x |-> 0, y |-> 0, width |-> 1920, height |-> 1080]
  /\ CoversBelowLeft(displays[2])

-----------------------------------------------------------------------------
(* C12.  Fallback at creation: createWindow places the surface at the       *)
(* persisted position when one exists and some attached display shows it,    *)
(* and at the default {0, 1696} otherwise (none persisted, or none shows     *)
(* it).  With {5000, 5000} persisted and the one display {0, 0, 1920, 1080}  *)
(* the surface is created at the default, not at the persisted position.     *)

C12_CreatedAtResolved ==
  op' = "createWindow" =>
    /\ winAlive' /\ mainWindow' # 0
    /\ winPos' = IF store # Null /\ SomeDisplayOverlaps(store)
                 THEN store ELSE [x |-> 0, y |-> 1696]
    /\ (/\ store = [x |-> 5000, y |-> 5000]
        /\ displays = <<[x |-> 0, y |-> 0, width |-> 1920, height |-> 1080]>>) =>
          (winPos' = [x |-> 0, y |-> 1696] /\ winPos' # store)
    /\ UNCHANGED <<store, displays>>

C12_CreationFallback == [][C12_CreatedAtResolved]_vars

\* The surface was just created at the default although {5000, 5000} is
\* persisted: the one display does not show it.
C12_Witness ==
  /\ op = "createWindow"
  /\ store = [x |-> 5000, y |-> 5000]
  /\ displays = <<[x |-> 0, y |-> 0, width |-> 1920, height |-> 1080]>>
  /\ winPos = [x |-> 0, y |-> 1696]

-----------------------------------------------------------------------------
(* C13.  Corrective moves are never persisted: forceDesiredSize,            *)
(* forceDesiredPosition, every step of the retry ladder, the 50 ms resize    *)
(* correction, the 'resize' handler and the display-event handlers leave     *)
(* the persisted position as it is, whatever they do to the surface; the     *)
(* 'moved' handler, which runs for a user move, persists the new position.   *)

C13_CorrectionsKeepStore ==
  (op' = "timer" \/ op' = "resize" \/ op' \in DisplayOps) => store' = store

C13_UserMoveIsPersisted ==
  (op' = "moved" /\ mainWindow # 0) => store' = winPos'

C13_CorrectiveNotPersisted ==
  [][C13_CorrectionsKeepStore /\ C13_UserMoveIsPersisted]_vars

\* A ladder step has just moved the surface to a position that is not the
\* persisted one, and the persisted one is what it was.
C13_Witness ==
  /\ op = "timer" /\ fired.kind \in RetryKinds
  /\ Count(calls, "setPosition") = 1
  /\ winPos = fired.desired
  /\ store # Null /\ store # winPos

-----------------------------------------------------------------------------
(* C14.  Self-healing convergence: on a host that obeys setPosition and     *)
(* setSize, whatever triggers came before (first show, display events,      *)
(* resize events, host drift, user moves), once the surface is shown and no  *)
(* delayed callback is pending any more its size is 320 x 47 and its         *)
(* position is the desired one: the persisted position, or the default when  *)
(* none is persisted.  Checked on the host that moves the surface only       *)
(* when the user does, so that every move is reported by 'moved'.            *)

Quiet == host = "compliant" /\ Live /\ winShown /\ timers = <<>>

C14_Converged ==
  Quiet => (SizeIsDesired(winSize) /\ winPos = PersistedOrDefault)

-----------------------------------------------------------------------------
(* C15.  Persistence round trip across restarts: the position the 'moved'   *)
(* handler writes is the one createWindow reads in the next run of the       *)
(* process, and the surface is created at exactly that position whenever an  *)
(* attached display shows it.  In the runs considered nothing but 'moved'    *)
(* replaces a persisted position, and the end of the process leaves it as    *)
(* it is.                                                                    *)

C15_MovedWrites ==
  (op' = "moved" /\ mainWindow # 0) => store' = winPos'

C15_KeptUntilRead ==
  /\ (store # Null /\ store' # store) => op' = "moved"
  /\ op' = "restart" => store' = store

C15_CreatedWhereRead ==
  (op' = "createWindow" /\ store # Null /\ SomeDisplayOverlaps(store)) =>
    (winPos' = store /\ store' = store)

-----------------------------------------------------------------------------
(* C16.  resetWindowPosition(store, saveToStore) on a live surface calls    *)
(* setPosition for the default {0, 1696}, which the host obeys, and then     *)
(* setAlwaysOnTop(true, 'screen-saver'); it persists the default if          *)
(* saveToStore is true and leaves the persisted position as it is if         *)
(* saveToStore is false; it sets no callback.  When the reference is null    *)
(* it issues no call and changes nothing.                                    *)

\* The saveToStore the call was made with, as the call logged it.
LoggedSaveToStore(cs) == cs[Len(cs)].args[2]

C16_OnLiveSurface ==
  (op' = "resetWindowPosition" /\ Live) =>
    /\ Len(calls') >= 2
    /\ calls'[1] = [op |-> "setPosition", args |-> <<0, 1696>>]
    /\ calls'[2] = [op |-> "setAlwaysOnTop", args |-> <<TRUE, "screen-saver">>]
    /\ Count(calls', "setPosition") = 1
    /\ winPos' = [x |-> 0, y |-> 1696]
    /\ winOnTop'
    /\ calls'[Len(calls')].op = "log"
    /\ store' = IF LoggedSaveToStore(calls') THEN [x |-> 0, y |-> 1696] ELSE store
    /\ UNCHANGED <<timers, winSize, mainWindow, winAlive>>

C16_WithoutSurface ==
  (op' = "resetWindowPosition" /\ mainWindow = 0) =>
    /\ calls' = <<>> /\ ~threw'
    /\ UNCHANGED <<winPos, winSize, winOnTop, store, timers, mainWindow, winAlive>>

C16_ResetToDefault == [][C16_OnLiveSurface /\ C16_WithoutSurface]_vars

\* A reset without saving has moved the surface to the default and left the
\* position the user had put it at persisted.
C16_Witness ==
  /\ op = "resetWindowPosition"
  /\ Live
  /\ ~LoggedSaveToStore(calls)
  /\ winPos = [x |-> 0, y |-> 1696]
  /\ store = [x |-> 1900, y |-> 0]

-----------------------------------------------------------------------------
(* C17.  Always-on-top is re-asserted with every position correction: in    *)
(* every handler and callback that completes, each setPosition call (first   *)
(* correction of a pass, ladder retries, resetWindowPosition) is followed at *)
(* once by setAlwaysOnTop(true, 'screen-saver'); no call ever passes false,  *)
(* and only the destruction of the surface ends its always-on-top state.     *)
(* (A setPosition that throws on a destroyed surface is the case of C6.)     *)

C17_FollowedByOnTop ==
  ~threw' =>
    \A i \in 1..Len(calls') :
      calls'[i].op = "setPosition" =>
        /\ i < Len(calls')
        /\ calls'[i + 1] = [op |-> "setAlwaysOnTop", args |-> <<TRUE, "screen-saver">>]
        /\ winOnTop'

C17_NeverCleared ==
  /\ \A i \in 1..Len(calls') :
       calls'[i].op = "setAlwaysOnTop" => calls'[i].args[1] = TRUE
  /\ (winOnTop /\ ~winOnTop') => op' = "destroy"

-----------------------------------------------------------------------------
(* C18.  Every delayed callback acts on values read when it fires, never on *)
(* one captured when it was set: a ladder step corrects the position         *)
(* exactly when the position it reads differs from the desired position of   *)
(* that moment (the persisted position, or the default), and moves the       *)
(* surface there; the 50 ms resize correction calls setSize exactly when the *)
(* size it reads is not 320 x 47.                                            *)

C18_LadderReadsDesired ==
  (op' = "timer" /\ fired'.kind \in RetryKinds /\ Live) =>
    /\ "setPosition" \in Names(calls') <=> winPos # PersistedOrDefault
    /\ SetPositionsTarget(calls', PersistedOrDefault)

C18_ResizeReadsSize ==
  (op' = "timer" /\ fired'.kind = "resize" /\ Live) =>
    ("setSize" \in Names(calls') <=> ~SizeIsDesired(winSize))

C18_FireTimeValues == [][C18_LadderReadsDesired /\ C18_ResizeReadsSize]_vars

-----------------------------------------------------------------------------
(* C19.  The persisted position is written by the 'moved' handler only:     *)
(* createWindow, the ready-to-show handler, resetWindowPosition, the         *)
(* reconciliation passes and callbacks and the display handlers leave the    *)
(* windowPosition key as it is.                                              *)

C19_WrittenByMoved == store' # store => op' = "moved"

C19_OnlyMovedWrites == [][C19_WrittenByMoved]_vars

-----------------------------------------------------------------------------
(* C20.  No cancellation, and overlapping sequences are harmless: a handler *)
(* leaves every pending callback pending, a callback that fires is removed   *)
(* and no other with it, and a callback that fires when the size is 320 x 47 *)
(* and the position is the desired one (the persisted position, or the       *)
(* default) issues no setPosition, setSize or setAlwaysOnTop and leaves the  *)
(* surface as it is, whatever sequences overlap.                             *)

C20_NoOpWhenRight ==
  (/\ op' = "timer"
   /\ Live /\ SizeIsDesired(winSize) /\ winPos = PersistedOrDefault) =>
    /\ NoCorrectiveCall(calls')
    /\ UNCHANGED <<winPos, winSize, winOnTop, store>>

C20_OverlapHarmless == [][C8_NeverCancelled /\ C20_NoOpWhenRight]_vars

-----------------------------------------------------------------------------
(* C21.  Bounded work per trigger.  Count for every pending callback the    *)
(* callbacks it can still cause: a pass is one callback and at most one      *)
(* ladder of three, any other callback is one.  A display event adds at most *)
(* 12 to that count, a first show at most 4, a resize event at most 1, no    *)
(* other handler adds any, and every callback that fires takes at least one  *)
(* away.  With no new host event the controller reaches Idle, the state with *)
(* no pending callback, and stays there, also when the host never obeys      *)
(* setPosition.                                                              *)

RECURSIVE Work(_)
Work(ts) ==
  IF ts = <<>> THEN 0
  ELSE (IF Head(ts).kind \in {"first", "check1", "check2", "check3"} THEN 4 ELSE 1)
       + Work(Tail(ts))

C21_WorkPerStep ==
  /\ op' = "timer" => Work(timers') <= Work(timers) - 1
  /\ op' \in DisplayOps => Work(timers') <= Work(timers) + 12
  /\ op' = "ready-to-show" => Work(timers') <= Work(timers) + 4
  /\ op' = "resize" => Work(timers') <= Work(timers) + 1
  /\ op' \notin ({"timer", "ready-to-show", "resize"} \cup DisplayOps) =>
       Work(timers') <= Work(timers)

Idle == timers = <<>>

C21_BoundedWork == [][C21_WorkPerStep]_vars /\ <>[]Idle

\* Idle after a display event on the host that never obeys: the last retry
\* of the last pass has fired, the position is still wrong, nothing is
\* pending.
C21_Witness ==
  /\ host = "hostile"
  /\ displays = <<[x |-> 0, y |-> 0, width |-> 1920, height |-> 1080]>>
  /\ Idle
  /\ op = "timer" /\ fired.kind = "retry3"
  /\ Live /\ winPos # PersistedOrDefault

-----------------------------------------------------------------------------
(* C22.  First-show trigger: the ready-to-show handler shows the surface,   *)
(* persists the default {0, 1696} if and only if no position is persisted,   *)
(* leaves a persisted position as it is, and sets exactly one callback, a    *)
(* forceDesiredPosition pass at 100 ms; it corrects nothing itself and       *)
(* leaves the callbacks already pending as they are.                         *)

C22_FirstShowStep ==
  (op' = "ready-to-show" /\ mainWindow # 0) =>
    /\ ~winShown /\ winShown'
    /\ Count(calls', "show") = 1
    /\ store' = IF store = Null THEN [x |-> 0, y |-> 1696] ELSE store
    /\ Len(timers') = Len(timers) + 1
    /\ IsPrefix(timers, timers')
    /\ timers'[Len(timers')].kind = "first"
    /\ timers'[Len(timers')].rem = 100
    /\ Callback(timers'[Len(timers')], <<>>) = forceDesiredPosition(<<>>)
    /\ NoCorrectiveCall(calls')
    /\ UNCHANGED <<winPos, winSize, winOnTop>>

C22_FirstShow == [][C22_FirstShowStep]_vars

\* The first show of a first run: the default was persisted and the pass is
\* pending, behind the checks of a display event that came earlier.
C22_Witness ==
  /\ op = "ready-to-show"
  /\ events = 1
  /\ winShown
  /\ store = [x |-> 0, y |-> 1696]
  /\ Len(timers) = 4
  /\ timers[4].kind = "first" /\ timers[4].rem = 100
  /\ winPos = store

-----------------------------------------------------------------------------
(* C23.  Absent persisted position: the first read that finds no position   *)
(* persisted, the one of createWindow, uses the default as the target and    *)
(* persists the default at once, so that every later read (the ready-to-show *)
(* handler, every forceDesiredPosition pass) finds a position persisted.     *)

C23_FirstReadWritesBack ==
  (op' = "createWindow" /\ store = Null) =>
    (winPos' = [x |-> 0, y |-> 1696] /\ store' = [x |-> 0, y |-> 1696])

C23_LaterReadsFindIt ==
  (\/ op' = "ready-to-show" /\ mainWindow # 0
   \/ op' = "timer" /\ fired'.kind \in PassKinds /\ Live) =>
    store # Null

C23_AbsentWrittenBack == [][C23_FirstReadWritesBack /\ C23_LaterReadsFindIt]_vars

-----------------------------------------------------------------------------
(* C24.  Resize trigger: a 'resize' event that finds a size other than      *)
(* 320 x 47 sets one callback at 50 ms, which calls setSize(320, 47) and     *)
(* neither setPosition nor setAlwaysOnTop and sets no callback; an event     *)
(* that finds 320 x 47 sets nothing.  The correction is debounced: however   *)
(* many resize events arrive within the 50 ms, one correction is pending.    *)

PendingResize(ts) == Cardinality({i \in 1..Len(ts) : ts[i].kind = "resize"})

C24_ResizeSchedules ==
  (op' = "resize" /\ mainWindow # 0) =>
    /\ NoCorrectiveCall(calls')
    /\ IF SizeIsDesired(winSize')
       THEN timers' = timers
       ELSE /\ IsPrefix(timers, timers')
            /\ PendingResize(timers') >= 1
            /\ \A i \in 1..Len(timers') :
                 timers'[i].kind = "resize" => timers'[i].rem <= 50

C24_SizeOnlyCorrection ==
  (op' = "timer" /\ fired'.kind = "resize" /\ Live) =>
    /\ Names(calls') \cap {"setPosition", "setAlwaysOnTop"} = {}
    /\ SizeIsDesired(winSize')
    /\ Len(timers') = Len(timers) - 1
    /\ UNCHANGED <<winPos, winOnTop, store>>

C24_Debounced == PendingResize(timers') <= 1

C24_ResizeTrigger ==
  [][C24_ResizeSchedules /\ C24_SizeOnlyCorrection /\ C24_Debounced]_vars

-----------------------------------------------------------------------------
(* C25.  Size and position are corrected independently within one pass of   *)
(* forceDesiredPosition: it calls setSize once exactly when the size is not  *)
(* 320 x 47, and calls setPosition once and sets the ladder exactly when the *)
(* position is not the one it reads from the store; so a size-only drift     *)
(* gives one setSize, no setPosition and no ladder, a position-only drift    *)
(* gives setPosition and the ladder and no setSize, and both give both.      *)

C25_PassStep ==
  (op' = "timer" /\ fired'.kind \in PassKinds /\ Live) =>
    LET sizeWrong == ~SizeIsDesired(winSize)
        posWrong == winPos # PersistedOrDefault
    IN  /\ Count(calls', "setSize") = IF sizeWrong THEN 1 ELSE 0
        /\ Count(calls', "setPosition") = IF posWrong THEN 1 ELSE 0
        /\ Count(calls', "setAlwaysOnTop") = IF posWrong THEN 1 ELSE 0
        /\ Len(timers') = Len(timers) - 1 + (IF posWrong THEN 3 ELSE 0)
        /\ SizeIsDesired(winSize')
        /\ ~posWrong => winPos' = winPos

C25_Independent == [][C25_PassStep]_vars

\* A pass found both wrong and corrected both.
C25_Witness ==
  /\ op = "timer" /\ fired.kind \in PassKinds
  /\ Count(calls, "setSize") = 1
  /\ Count(calls, "setPosition") = 1
  /\ SizeIsDesired(winSize) /\ winPos = PersistedOrDefault
  /\ Len(timers) >= 3

-----------------------------------------------------------------------------
(* C26.  Each ladder step decides on the position it reads when it fires:   *)
(* the step at 100, 500 or 1000 ms calls setPosition, and setAlwaysOnTop     *)
(* with it, if and only if that position differs from the desired position   *)
(* of its ladder (the `desired` of the pass that set it; C18 is about the    *)
(* desired position of the moment).  The record                              *)
(* 'position-restored-successfully' is written by the 1000 ms step only, and *)
(* only when the position matches then.  No step sets a callback.            *)

Restored(cs) == \E i \in 1..Len(cs) : cs[i] = [op |-> "log", args |-> <<"position-restored-successfully">>]

C26_StepDecides ==
  (op' = "timer" /\ fired'.kind \in RetryKinds /\ Live) =>
    /\ "setPosition" \in Names(calls') <=> winPos # fired'.desired
    /\ Count(calls', "setPosition") = Count(calls', "setAlwaysOnTop")
    /\ Count(calls', "setPosition") <= 1
    /\ SetPositionsTarget(calls', fired'.desired)
    /\ Restored(calls') <=> (fired'.kind = "retry3" /\ winPos = fired'.desired)
    /\ Len(timers') = Len(timers) - 1
    /\ \E i \in 1..Len(timers) :
         timers[i] = fired' /\ timers' = Remaining(timers, i)

C26_RecordOnlyAtLastStep ==
  Restored(calls') => (op' = "timer" /\ fired'.kind = "retry3")

C26_LadderStepDecision == [][C26_StepDecides /\ C26_RecordOnlyAtLastStep]_vars

\* The 1000 ms step found the surface at the position of its ladder and
\* recorded the success, in a run with a host event.
C26_Witness ==
  /\ op = "timer" /\ fired.kind = "retry3"
  /\ Restored(calls)
  /\ "setPosition" \notin Names(calls)
  /\ winPos = fired.desired
  /\ events >= 1

-----------------------------------------------------------------------------
(* C27.  Width and height are constants of the controller: the surface is   *)
(* created 320 x 47, every setSize call, from whatever handler or callback   *)
(* and in whatever state, passes exactly 320 and 47 and leaves the surface   *)
(* at that size; setPosition is the call whose arguments vary.               *)

C27_SetSizeArguments ==
  \A i \in 1..Len(calls) : calls[i].op = "setSize" => calls[i].args = <<320, 47>>

C27_SizeConstants ==
  /\ C27_SetSizeArguments
  /\ op = "createWindow" => winSize = [width |-> 320, height |-> 47]
  /\ "setSize" \in Names(calls) => winSize = [width |-> 320, height |-> 47]

\* The 50 ms correction has called setSize(320, 47) on a surface the host had
\* rescaled, at a position other than the default.
C27_Witness ==
  /\ op = "timer" /\ fired.kind = "resize"
  /\ \E i \in 1..Len(calls) : calls[i] = [op |-> "setSize", args |-> <<320, 47>>]
  /\ winSize = [width |-> 320, height |-> 47]
  /\ winPos # [x |-> 0, y |-> 1696]

-----------------------------------------------------------------------------
(* C28.  Oracle boundary cases: with no display attached isPositionVisible  *)
(* is false for every position; on a single display it is false for a        *)
(* widget that only touches an edge of the work area (p.x = x + width,       *)
(* p.x + 320 = x, p.y = y + height or p.y + 47 = y) and true for a widget     *)
(* that overlaps it by one pixel on both axes.                               *)

TouchesEdge(p, d) ==
  \/ p.x = d.x + d.width
  \/ p.x + 320 = d.x
  \/ p.y = d.y + d.height
  \/ p.y + 47 = d.y

OnePixelOnBothAxes(p, d) ==
  /\ p.x + 320 = d.x + 1 \/ p.x = d.x + d.width - 1
  /\ p.y + 47 = d.y + 1 \/ p.y = d.y + d.height - 1

C28_BoundaryCases ==
  /\ displays = <<>> =>
       /\ \A p \in ProbePositions : ~isPositionVisible(p)
       /\ op = "isPositionVisible" => ~visible
  /\ Len(displays) = 1 =>
       /\ \A p \in ProbePositions :
            /\ TouchesEdge(p, displays[1]) => ~isPositionVisible(p)
            /\ OnePixelOnBothAxes(p, displays[1]) => isPositionVisible(p)
       /\ (op = "isPositionVisible" /\ TouchesEdge(probe, displays[1])) => ~visible
       /\ (op = "isPositionVisible" /\ OnePixelOnBothAxes(probe, displays[1])) => visible

\* A call returned false for a widget whose right edge is the left edge of
\* the one display, at a height the display covers.
C28_Witness ==
  /\ op = "isPositionVisible"
  /\ displays = <<[x |-> 0, y |-> 0, width |-> 1920, height |-> 1080]>>
  /\ probe = [x |-> -320, y |-> 0]
  /\ ~visible

-----------------------------------------------------------------------------
(* C29.  A position check set by a display event reads the persisted        *)
(* position when it fires: the check at 500, 1500 or 3000 ms compares the    *)
(* position of the surface with the position persisted at that moment, so    *)
(* after a user move in between its correction targets the position the      *)
(* user persisted, or it finds the geometry right and corrects nothing.      *)

C29_CheckStep ==
  (op' = "timer" /\ fired'.kind \in TopologyKinds /\ Live) =>
    /\ "setPosition" \in Names(calls') <=> winPos # PersistedOrDefault
    /\ SetPositionsTarget(calls', PersistedOrDefault)
    /\ "setPosition" \in Names(calls') => winPos' = PersistedOrDefault
    /\ \A i \in 1..Len(timers') :
         (timers'[i].kind \in RetryKinds /\ timers'[i] \notin {timers[j] : j \in 1..Len(timers)}
          /\ \A j \in 1..Len(timers) : timers'[i].seq # timers[j].seq) =>
           timers'[i].desired = PersistedOrDefault

C29_CheckReadsAtFireTime == [][C29_CheckStep]_vars

\* A check has moved the surface to {5000, 5000}, which the user persisted
\* after the ladder for {1900, 0} that is still pending was set.
C29_Witness ==
  /\ op = "timer" /\ fired.kind \in TopologyKinds
  /\ Count(calls, "setPosition") = 1
  /\ store = [x |-> 5000, y |-> 5000]
  /\ winPos = store
  /\ \E i \in 1..Len(timers) :
       timers[i].kind \in RetryKinds /\ timers[i].desired = [x |-> 1900, y |-> 0]

-----------------------------------------------------------------------------
(* C30.  Callbacks belong to the surface they were set for: a callback that *)
(* fires when mainWindow refers to another surface than the one it was set   *)
(* for (the surface was closed, 'activate' created a new one) issues no host *)
(* call, so none on the new surface.                                         *)

C30_OwnSurfaceOnly ==
  (op' = "timer" /\ fired'.win # mainWindow) => calls' = <<>>

C30_CallbacksOfOldSurface == [][C30_OwnSurfaceOnly]_vars

-----------------------------------------------------------------------------
(* C31.  Once the ready-to-show handler has run, the persisted position is  *)
(* never absent again: the handler leaves an {x, y} pair in the             *)
(* windowPosition key, and no later operation (moved event, reset, display  *)
(* event, callback) replaces a pair by an absent value; so the key holds a  *)
(* pair whenever the surface has been shown.                                 *)

IsPair(v) == v # Null /\ DOMAIN v = {"x", "y"}

C31_HandlerLeavesPair == op' = "ready-to-show" => IsPair(store')

C31_PairIsKept == IsPair(store) => IsPair(store')

C31_NeverAbsentAgain ==
  /\ [][C31_HandlerLeavesPair /\ C31_PairIsKept]_vars
  /\ [](winShown => IsPair(store))

\* On a first run (nothing persisted, the handler wrote the default) a display
\* event was the only trigger, and one of its checks has fired.
C31_Witness ==
  /\ op = "timer" /\ fired.kind \in TopologyKinds
  /\ winShown
  /\ events = 1
  /\ store = [x |-> 0, y |-> 1696]

-----------------------------------------------------------------------------
(* C32.  A display event received when no surface exists (mainWindow is     *)
(* null: the 'closed' event cleared it) does nothing: the handler issues no *)
(* host call, sets none of the 500/1500/3000 ms checks (the pending         *)
(* callbacks are the same as before) and leaves the persisted position and  *)
(* the geometry as they were.                                                *)

C32_NoSurfaceStep ==
  (op' \in DisplayOps /\ mainWindow = 0) =>
    /\ calls' = <<>>
    /\ ~threw'
    /\ timers' = timers
    /\ store' = store
    /\ winPos' = winPos /\ winSize' = winSize /\ winOnTop' = winOnTop

C32_TopologyWithoutSurface == [][C32_NoSurfaceStep]_vars

\* A display event arrived after the shown surface was closed, while the
\* 100 ms pass of its first show was still pending.
C32_Witness ==
  /\ op \in DisplayOps
  /\ appReady /\ mainWindow = 0 /\ created = 1
  /\ calls = <<>>
  /\ Len(timers) = 1 /\ timers[1].kind = "first"

-----------------------------------------------------------------------------
(* C33.  Single instance: a process that did not acquire the single-        *)
(* instance lock creates no surface and no tray and registers no display    *)
(* handler (its ready callback returns at once, so no handler of the        *)
(* controller ever runs in it and no callback is ever pending); a surface   *)
(* is created only when no window exists, so at most one surface exists at  *)
(* a time, and it is the one mainWindow refers to.                          *)

C33_WithoutLock ==
  ~gotTheLock =>
    /\ created = 0 /\ windows = 0 /\ mainWindow = 0 /\ ~winAlive
    /\ timers = <<>>
    /\ calls = <<>>
    /\ op \in {"init", "whenReady"}

C33_AtMostOne ==
  /\ windows <= 1
  /\ windows = (IF winAlive THEN 1 ELSE 0)
  /\ winAlive => mainWindow = created

C33_CreatedWhenNone == op' = "createWindow" => windows = 0

C33_SingleInstance ==
  /\ [](C33_WithoutLock /\ C33_AtMostOne)
  /\ [][C33_CreatedWhenNone]_vars

\* The ready callback of a process without the lock has run.
C33_Witness ==
  /\ ~gotTheLock
  /\ appReady
  /\ op = "whenReady"
  /\ created = 0 /\ windows = 0

-----------------------------------------------------------------------------
(* C34.  At most one polling timer per service: in every state each service *)
(* has at most one active interval, the one its intervalId holds (none when *)
(* intervalId is null).  startTemperatureService on a running service sets  *)
(* no interval and starts no fetch; startBluetoothBatteryMonitoring clears  *)
(* the previous interval and sets a new one; a stop clears the interval and *)
(* leaves intervalId null, and does nothing when nothing is running.        *)

IntervalsOf(s) == {e[2] : e \in {i \in intervals : i[1] = s}}

C34_OneInterval ==
  /\ Cardinality(IntervalsOf("temperature")) <= 1
  /\ Cardinality(IntervalsOf("bluetooth")) <= 1
  /\ IntervalsOf("temperature") =
       (IF temperatureIntervalId = 0 THEN {} ELSE {temperatureIntervalId})
  /\ IntervalsOf("bluetooth") =
       (IF bluetoothIntervalId = 0 THEN {} ELSE {bluetoothIntervalId})

C34_StartWhileRunning ==
  (op' = "startTemperatureService" /\ temperatureIntervalId # 0) =>
    /\ calls' = <<>>
    /\ UNCHANGED <<temperatureIntervalId, intervals, fetches>>

C34_StartReplaces ==
  (op' = "startBluetoothBatteryMonitoring" /\ bluetoothIntervalId # 0) =>
    /\ calls' = <<CallClearInterval(bluetoothIntervalId),
                  CallSetInterval("fetchAndUpdateBluetoothBattery", 30000)>>
    /\ bluetoothIntervalId' \notin {0, bluetoothIntervalId}
    /\ <<"bluetooth", bluetoothIntervalId>> \notin intervals'

C34_Stop ==
  /\ op' = "stopTemperatureService" =>
       /\ temperatureIntervalId' = 0
       /\ IF temperatureIntervalId = 0
          THEN calls' = <<>> /\ UNCHANGED intervals
          ELSE calls' = <<CallClearInterval(temperatureIntervalId)>>
  /\ op' = "stopBluetoothBatteryMonitoring" =>
       /\ bluetoothIntervalId' = 0
       /\ IF bluetoothIntervalId = 0
          THEN calls' = <<>> /\ UNCHANGED intervals
          ELSE calls' = <<CallClearInterval(bluetoothIntervalId)>>

C34_OneTimerPerService ==
  /\ []C34_OneInterval
  /\ [][C34_StartWhileRunning /\ C34_StartReplaces /\ C34_Stop]_vars

\* startBluetoothBatteryMonitoring was called while the interval of an
\* earlier call was active, the temperature service running as well.
C34_Witness ==
  /\ op = "startBluetoothBatteryMonitoring"
  /\ Len(calls) = 2 /\ calls[1].op = "clearInterval"
  /\ Cardinality(intervals) = 2
  /\ temperatureIntervalId # 0

-----------------------------------------------------------------------------
(* C35.  A failed poll keeps the last good reading: when the fetch of a     *)
(* service returns null, the value getLastTemperatureData /                 *)
(* getLastBluetoothBatteryData returns is the same as before and no update  *)
(* is sent to the surface.  The cached value changes only when a fetch      *)
(* succeeds, to what that fetch returned, and an update is sent only for a  *)
(* successful fetch while the surface exists and is not destroyed, carrying *)
(* what the fetch returned.                                                  *)

Sends(cs) == {i \in 1..Len(cs) : cs[i].op = "send"}

C35_TemperatureStep ==
  IF op' = "fetchAndLogTemperature"
  THEN LET data == calls'[1].args[1]
       IN  /\ data = 0 =>
                /\ getLastTemperatureData' = getLastTemperatureData
                /\ Sends(calls') = {}
           /\ data # 0 => getLastTemperatureData' = data
           /\ Sends(calls') # {} <=> (data # 0 /\ Live)
           /\ \A i \in Sends(calls') :
                calls'[i] = CallSend("temperature-update", data)
  ELSE /\ getLastTemperatureData' = getLastTemperatureData
       /\ \A i \in Sends(calls') : calls'[i].args[1] # "temperature-update"

C35_BluetoothStep ==
  IF op' = "fetchAndUpdateBluetoothBattery"
  THEN LET data == calls'[1].args[1]
       IN  /\ data = 0 =>
                /\ getLastBluetoothBatteryData' = getLastBluetoothBatteryData
                /\ Sends(calls') = {}
           /\ data # 0 => getLastBluetoothBatteryData' = data
           /\ Sends(calls') # {} <=> (data # 0 /\ Live)
           /\ \A i \in Sends(calls') :
                calls'[i] = CallSend("bluetooth-battery-update", data)
  ELSE /\ getLastBluetoothBatteryData' = getLastBluetoothBatteryData
       /\ \A i \in Sends(calls') : calls'[i].args[1] # "bluetooth-battery-update"

C35_FailedPollKeepsReading == [][C35_TemperatureStep /\ C35_BluetoothStep]_vars

\* A temperature fetch has failed on the live surface, after one that had
\* returned the reading 2: the reading is still 2 and nothing was sent.
C35_Witness ==
  /\ op = "fetchAndLogTemperature"
  /\ calls = <<Returned("fetchTemperatureData", 0)>>
  /\ mainWindow # 0 /\ winAlive
  /\ getLastTemperatureData = 2

====
